---------------------------- MODULE Spec2Model ----------------------------
(***************************************************************************)
(* A model of the SharePoint crawler of src/sharepoint_client.py:          *)
(*   - the constructor            SharePointClient.__init__                *)
(*     with the two requests of _test_authentication,                      *)
(*   - the HTTP request executor  SharePointClient._make_request           *)
(*     (refresh-and-retry on 401, sleep-and-recurse on 429),               *)
(*   - site discovery             SharePointClient.discover_all_sites      *)
(*     and its three strategies,                                           *)
(*   - the per-site aggregator    SharePointClient.analyze_site_permissions*)
(*     and the three enumerators it calls.                                 *)
(* Every HTTP attempt, token refresh and sleep is one step; the remote     *)
(* API answers each attempt nondeterministically.                          *)
(***************************************************************************)
EXTENDS Integers, Sequences, FiniteSets, TLC

(***************************************************************************)
(* Bounds of the model.                                                    *)
(***************************************************************************)
\* Nested _make_request frames for which the interpreter's stack holds the
\* calls they make (CPython's recursion limit, scaled). The frame entered
\* below them still runs, and the RecursionError rises inside its
\* requests.get, which nests far deeper than the one call of line 102.
RecursionLimit == 12
\* Non-200 answers (and transport errors) the remote API gives during one
\* discovery or one site analysis.
MaxFaults == 2
\* Site records (or drives) the remote API returns to one discovery strategy.
MaxSites == 3
\* Pages of the site search: the longest chain of continuation links.
MaxPages == 3
\* Drives the remote API lists under /drives.
MaxDrives == 2
\* Document libraries the remote API lists for one site.
MaxLibs == 2
\* Shared items, and permissions, the remote API lists for the libraries of
\* one site, all libraries together.
MaxItems == 3

\* Continuation pages a site search is followed for when the API's links lead
\* back to a page already read.
MaxReads == 6

\* Bytes of the salt in credentials.key (16 in the code, line 41).
SaltLen == 2

VARIABLES
    token,      \* authenticator.access_token: 0 = None, n > 0 = n-th token issued
    rpc,        \* position inside _make_request
    req,        \* arguments of the current _make_request frame: url, method, data
    depth,      \* _make_request frames below the current one (recursion of line 102)
    resp,       \* the response object held by the current frame
    result,     \* value returned by the finished _make_request call
    wire,       \* the last HTTP request put on the wire: url, method, data, token
    frame,      \* what the current frame has done: requests sent, refreshes, ...
    call,       \* what the whole top-level call has done: requests sent, refreshes, slept
    faults,     \* non-200 answers given by the remote API so far
    quota,      \* non-200 answers the remote API may give in this run
    hit,        \* the endpoints (URL kinds) the running operation has sent a request to
    tenant,     \* the site ids the remote API uses in this run
    steady,     \* whether the remote API answers a URL the same way every time
    answered,   \* the answers a steady remote API has given: <<url, response>>
    pc,         \* position of the caller of _make_request
    sites,      \* SharePointClient.sites, the cached site set
    strategy,   \* discover_all_sites: index of the discovery method being run
    acc,        \* the running strategy's local list `sites`
    todo,       \* _discover_sites_via_drives: the drives still to visit
    raw,        \* discover_all_sites: its local list `sites` (lines 121, 134)
    discovered, \* the list discover_all_sites returned
    outcomes,   \* how each discovery method invoked so far ended, in order
    pages,      \* the payloads _discover_sites_via_search got, in order
    site_id,    \* analyze_site_permissions: its argument
    site_data,  \* analyze_site_permissions: the site record fetched
    libraries,  \* analyze_site_permissions: the library records, filled in place
    idx,        \* analyze_site_permissions: index of the library being analysed
    analysis,   \* the value analyze_site_permissions returned
    lost,       \* the <<library index, collection>> fetches that returned None
    asked,      \* the URLs the running analysis has requested, in order
    listed,     \* how the enumerator a caller has called ended: raised, or the list returned
    who,        \* what uses the client: main, analyze_all_sites, a caller of one method
    pos,        \* 1-based index of the current site in the caller's loop
    all_analyses, \* the caller's local list all_analyses
    visited,    \* the sites the loop has gone through: id and whether analysed
    exit_code,  \* what main returned (-1: has not returned)
    exported,   \* the lists handed to HTMLExporter.export_to_html, in order
    previous,   \* what the earlier call returned (a site list, or main's analyses)
    round,      \* calls of the repeated operation started
    key_file,   \* credentials.key: the bytes written, or NoFile
    config_file,\* azure_credentials.json: the token written, or NoFile
    last,       \* the CredentialManager call that returned last, with its result
    earlier     \* the CredentialManager call that returned before it

\* The files of the CredentialManager and the record of its calls.
fileVars == <<key_file, config_file, last, earlier>>

\* What lies outside the client: the remote API and the files on disk.
apiVars == <<tenant, steady, fileVars>>

netVars ==
    <<token, rpc, req, depth, resp, result, wire, frame, call, faults, quota,
      answered, apiVars>>

execVars == <<netVars, hit>>

discVars == <<strategy, acc, todo, raw, discovered, outcomes, pages>>

anaVars == <<site_id, site_data, libraries, idx, analysis, lost, asked, listed>>

batchVars == <<who, pos, all_analyses, visited, exit_code, exported, previous, round>>

callerVars == <<pc, sites, discVars, anaVars, batchVars>>

vars == <<execVars, callerVars>>

(***************************************************************************)
(* Values.                                                                 *)
(***************************************************************************)
\* Python's None as returned by _make_request; a JSON body that is `{}`, whose
\* .get("id") gives nothing (id 0).
None == [kind |-> "none"]
EmptyObject == [kind |-> "empty", id |-> 0]
\* A 200 body that response.json() cannot parse.
Malformed == [kind |-> "malformed"]

\* A file that does not exist; no CredentialManager call yet.
NoFile == [kind |-> "nofile"]
NoCall == [op |-> "none"]

NoResponse == [status |-> 0, body |-> None, hasRetryAfter |-> FALSE, retryAfter |-> <<>>]
NoWire == [url |-> [kind |-> "none", a |-> 0, b |-> 0], method |-> <<>>, data |-> 0, token |-> 0]

NewFrame == [sent |-> 0, refreshes |-> 0, first |-> 0, refreshed |-> "no", token1 |-> 0]
NewCall == [sent |-> 0, refreshes |-> 0, slept |-> 0]

\* No enumerator has returned to the caller's current call.
NoListing == [raised |-> FALSE, value |-> <<>>]

Url(k, a, b) == [kind |-> k, a |-> a, b |-> b]

\* A single-resource body (a site record): id 0 stands for a missing or falsy id.
Object(i, s) == [kind |-> "object", id |-> i, serial |-> s]

\* A truth test that only None fails.
Truthy_NotNone(data) == data # None

\* Python truthiness of a parsed payload: None and {} are falsy.
Truthy(data) == data.kind \notin {"none", "empty"}

(***************************************************************************)
(* int(response.headers.get('Retry-After', 60)), line 99.                  *)
(* A header value is a string, written here as the sequence of its code    *)
(* points; the HTTP library decodes header bytes as ISO-8859-1, so they    *)
(* lie in 0..255. int() strips the whitespace around the text, takes an    *)
(* optional sign and then needs digits, with single underscores allowed    *)
(* between two digits; anything else raises ValueError. The values lie     *)
(* within the integers of the model (below 2^31).                          *)
(***************************************************************************)
\* The characters of 0..255 that int() strips: tab, line feed, vertical tab,
\* form feed, carriage return, space, next line (0x85), no-break space (0xA0).
Whitespace == {9, 10, 11, 12, 13, 32, 133, 160}

\* "0" .. "9".
Digits == 48..57

\* "+", "-", "_".
Plus == 43
Minus == 45
Underscore == 95

DigitVal(c) == c - 48

RECURSIVE StripLeft(_)
StripLeft(s) == IF s # <<>> /\ Head(s) \in Whitespace THEN StripLeft(Tail(s)) ELSE s

RECURSIVE StripRight(_)
StripRight(s) ==
    IF s # <<>> /\ s[Len(s)] \in Whitespace THEN StripRight(SubSeq(s, 1, Len(s) - 1)) ELSE s

\* Digits with single underscores between them: every character is a digit or
\* an underscore, and an underscore has a digit on either side.
Numeral(ds) ==
    /\ ds # <<>>
    /\ \A i \in 1..Len(ds) :
          \/ ds[i] \in Digits
          \/ /\ ds[i] = Underscore
             /\ i > 1 /\ i < Len(ds)
             /\ ds[i - 1] \in Digits
             /\ ds[i + 1] \in Digits

RECURSIVE DigitsValue(_, _)
DigitsValue(s, n) ==
    IF s = <<>> THEN n
    ELSE IF Head(s) = Underscore THEN DigitsValue(Tail(s), n)
    ELSE DigitsValue(Tail(s), 10 * n + DigitVal(Head(s)))

PyInt(s) ==
    LET t == StripRight(StripLeft(s))
        signed == t # <<>> /\ Head(t) \in {Minus, Plus}
        ds == IF signed THEN Tail(t) ELSE t
        ok == Numeral(ds)
        mag == IF ok THEN DigitsValue(ds, 0) ELSE 0
    IN [ok |-> ok, val |-> IF signed /\ Head(t) = Minus THEN 0 - mag ELSE mag]

\* The default of line 99 when the header is absent.
DefaultRetryAfter == 60

\* retry_after of line 99: [ok, val]; ok = FALSE when int() raises.
RetryAfterOf(r) ==
    IF r.hasRetryAfter THEN PyInt(r.retryAfter) ELSE [ok |-> TRUE, val |-> DefaultRetryAfter]

(***************************************************************************)
(* The remote API.                                                         *)
(***************************************************************************)
\* Retry-After values the modelled API sends with a 429: " 2", "-1", "Wed".
RetryAfterHeaders == { <<32, 50>>, <<45, 49>>, <<87, 101, 100>> }

OtherStatuses == {403, 500}

\* Site ids the API uses when discovery is looked at on its own; 0 stands for
\* a missing or falsy "id".
SiteIds == {0, 1, 2}

\* Site ids the API uses when discovery is run twice.
RepeatSiteIds == {0, 1}

\* Site ids the API uses when a whole tenant is analysed: three sites.
TenantSiteIds == {1, 2, 3}

\* Site ids the API uses when a tenant is analysed twice: two sites.
TwiceSiteIds == {1, 2}

SeqsUpTo(S, n) == UNION { [1..k -> S] : k \in 0..n }

\* A collection envelope {"value": [...], "@odata.nextLink": ...}: hasValue
\* tells whether the "value" key is there, next = 0 that there is no
\* "@odata.nextLink", next = k that it links to page k of the search.
Collection(hasValue, value, next) ==
    [kind |-> "collection", hasValue |-> hasValue, value |-> value, next |-> next]

\* A drive of the /drives listing; siteId 0: no parentReference.siteId.
Drive(i, s) == [kind |-> "drive", id |-> i, siteId |-> s]

\* A steady API is looked at with one record, page and drive fewer than one
\* that may change its answers.
Span(n) == IF steady THEN n - 1 ELSE n

\* A tenant-wide run is looked at with one page, drive, library and entry
\* fewer than a single discovery or a single site analysis.
Share(n) == IF who \in {"main", "all"} THEN n - 1 ELSE n

\* A client used twice against a steady API is looked at with the shortest
\* listings that take it through every step: two pages, one drive, one
\* library.
Least(n, least) == IF steady /\ who \in {"main", "all"} THEN least ELSE n

\* Site records still to come for the running strategy; in a tenant-wide run
\* a listing is no longer than the tenant has sites.
Room ==
    (IF who \in {"main", "all"} /\ Cardinality(tenant) < MaxSites
     THEN Cardinality(tenant) ELSE Span(MaxSites)) - Len(acc)

\* The pages the API may send for page u.a of the site search: its records are
\* numbered on from those of the pages before it.
SearchBodies(u) ==
    LET nexts == {0} \cup (IF u.a < Least(Share(Span(MaxPages)), 2) THEN {u.a + 1} ELSE {})
                     \cup (IF who = "pager" THEN 1..u.a ELSE {})
    IN { Collection(TRUE, [j \in 1..Len(ids) |-> Object(ids[j], Len(acc) + j)], n) :
             ids \in SeqsUpTo(tenant, Room), n \in nexts }
       \cup { Collection(FALSE, <<>>, n) : n \in nexts }

DriveBodies ==
    { Collection(TRUE, [j \in 1..Len(ss) |-> Drive(j, ss[j])], 0) :
          ss \in SeqsUpTo(tenant \cup {0}, Least(Share(Span(MaxDrives)), 1)) }

\* A raw entry of a shared-items or permissions listing.
Item(i) == [kind |-> "item", id |-> i]

\* An entry of a "value" array that is a JSON string, not an object.
Text == [kind |-> "text"]

\* A listing that holds an entry that is no object, sent to a caller of the
\* enumerators; the sites an analysis walks are looked at with listings of
\* objects.
Unreadable ==
    IF who = "enumerate" THEN { Collection(TRUE, <<Item(1), Text>>, 0) } ELSE {}

\* The listings the enumerators read: n entries, with or without a link to a
\* further page (page 2).
\* Libraries, and entries of one kind, of the sites a batch has analysed.
Banked(kind) ==
    LET RECURSIVE Sum(_)
        Sum(i) == IF i > Len(all_analyses) THEN 0
                  ELSE (CASE kind = "libs" -> all_analyses[i].total_libraries
                          [] kind = "shared" -> all_analyses[i].total_shared_links
                          [] OTHER -> all_analyses[i].total_permissions) + Sum(i + 1)
    IN Sum(1)

LibraryBodies ==
    { Collection(TRUE, [j \in 1..n |-> Drive(j, 0)], nx) :
          n \in 0..(Least(Share(MaxLibs), 1) - Banked("libs")), nx \in {0, 2} }
    \cup { Collection(FALSE, <<>>, 0) }

\* Entries of one kind already listed for the libraries of the site analysed
\* and of the sites analysed before it.
Listed(kind) ==
    LET RECURSIVE Sum(_)
        Sum(i) == IF i > Len(libraries) THEN 0
                  ELSE Len(IF kind = "shared" THEN libraries[i].shared_links
                           ELSE libraries[i].permissions) + Sum(i + 1)
    IN Sum(1) + Banked(kind)

ItemBodies(kind) ==
    { Collection(TRUE, [j \in 1..n |-> Item(j)], nx) :
          n \in 0..(Least(Share(Share(MaxItems)), 0) - Listed(kind)), nx \in {0, 2} }
    \cup { Collection(FALSE, <<>>, 0) }

\* The 200 bodies no caller can use: one that is not JSON and `{}`; for a
\* client used twice against a steady API `{}` alone.
Unusable == IF Least(2, 1) = 1 THEN {EmptyObject} ELSE {Malformed, EmptyObject}

\* The ids the root site may carry: any of the tenant's; for a client used
\* twice against a steady API the first.
RootIds == IF Least(2, 1) = 1 THEN { CHOOSE i \in tenant : \A j \in tenant : i <= j } ELSE tenant

\* Bodies the API may send with a 200 for a URL.
Bodies(u) ==
    Unusable \cup
    CASE u.kind = "search" -> SearchBodies(u)
      [] u.kind = "me" -> { Object(1, 1) }
      [] u.kind = "root" -> { Object(i, 1) : i \in RootIds }
      [] u.kind = "drives" -> DriveBodies
      [] u.kind = "site" ->
           { Object(i, Len(acc) + 1) : i \in {u.a} \cup (IF pc = "drive_site" THEN {0} ELSE {}) }
      [] u.kind = "libs" -> LibraryBodies \cup Unreadable
      [] u.kind \in {"shared", "perms"} -> ItemBodies(u.kind) \cup Unreadable
      [] OTHER -> {}

Ok(body) == [status |-> 200, body |-> body, hasRetryAfter |-> FALSE, retryAfter |-> <<>>]

\* Non-200 answers, and status 0 for a transport error raised by requests; for
\* a client used twice against a steady API an expired token and a server
\* error.
Failures ==
    IF Least(2, 1) = 1
    THEN { [status |-> s, body |-> None, hasRetryAfter |-> FALSE, retryAfter |-> <<>>] :
               s \in {401, 500} }
    ELSE { [status |-> s, body |-> None, hasRetryAfter |-> FALSE, retryAfter |-> <<>>] :
               s \in {0, 401, 429} \cup OtherStatuses }
         \cup { [status |-> 429, body |-> None, hasRetryAfter |-> TRUE, retryAfter |-> h] :
                    h \in RetryAfterHeaders }

\* What the API may answer to a request for u: anything, or, when it is steady
\* and has answered u before, that same answer.
Answers(u) ==
    IF steady /\ \E a \in answered : a[1] = u
    THEN { a[2] : a \in { b \in answered : b[1] = u } }
    ELSE { Ok(b) : b \in Bodies(u) } \cup (IF faults < quota THEN Failures ELSE {})

Remember(u, r) == IF steady THEN answered \cup {<<u, r>>} ELSE answered

(***************************************************************************)
(* SharePointClient._make_request, lines 55-111.                           *)
(***************************************************************************)
\* A method is a string, written as the sequence of its code points.
GET == <<71, 69, 84>>
POST == <<80, 79, 83, 84>>
PUT == <<80, 85, 84>>

\* str.upper() of one character, for the code points 0..255 and for every
\* other character whose upper case holds an ASCII letter: a..z and the
\* Latin-1 letters move to their capitals, a few characters give two or
\* three (sharp s gives "SS", the ligature of s and t gives "ST").
UpperChar(c) ==
    CASE c \in 97..122 -> <<c - 32>>
      [] c \in (224..254) \ {247} -> <<c - 32>>
      [] c = 181 -> <<924>>
      [] c = 223 -> <<83, 83>>
      [] c = 255 -> <<376>>
      [] c = 305 -> <<73>>
      [] c = 329 -> <<700, 78>>
      [] c = 383 -> <<83>>
      [] c = 496 -> <<74, 780>>
      [] c = 7830 -> <<72, 817>>
      [] c = 7831 -> <<84, 776>>
      [] c = 7832 -> <<87, 778>>
      [] c = 7833 -> <<89, 778>>
      [] c = 7834 -> <<65, 702>>
      [] c = 64256 -> <<70, 70>>
      [] c = 64257 -> <<70, 73>>
      [] c = 64258 -> <<70, 76>>
      [] c = 64259 -> <<70, 70, 73>>
      [] c = 64260 -> <<70, 70, 76>>
      [] c \in {64261, 64262} -> <<83, 84>>
      [] OTHER -> <<c>>

\* method.upper() of lines 71-75 and 85-89.
RECURSIVE Upper(_)
Upper(m) == IF m = <<>> THEN <<>> ELSE UpperChar(Head(m)) \o Upper(Tail(m))

\* What requests.get/post/put puts on the wire: json=data only for POST and PUT.
OnWire(r, tok) ==
    [url |-> r.url, method |-> Upper(r.method),
     data |-> IF Upper(r.method) = GET THEN 0 ELSE r.data, token |-> tok]

\* A get_headers that keeps the headers built for the frame's first attempt.
get_headers_stale == IF frame.sent > 0 THEN frame.token1 ELSE token

\* A get_headers that keeps the token the client was constructed with.
get_headers_initial == IF token = 0 THEN 0 ELSE 1

\* M365Authenticator.get_headers: the bearer token is read from the
\* authenticator at every call (0: not authenticated, the call raises).
get_headers == token

\* A dispatch that sends every 4xx status to the refresh branch.
FirstNext_RefreshOn4xx(r) ==
    IF r.status >= 400 /\ r.status < 500 /\ r.status # 429 THEN "refresh" ELSE "respond"

\* Line 80: only a 401 on the first attempt leads to the refresh branch.
FirstNext(r) == IF r.status = 401 THEN "refresh" ELSE "respond"

\* A parser that hands a body it cannot parse on to the caller.
response_json_lenient(body) == body

\* response.json(), line 96: raises on a body that is not JSON, and the
\* handler of line 109 turns that into None.
response_json(body) == IF body = Malformed THEN None ELSE body

\* A retry that treats a second 401 like the first one.
RetryNext_Loop(r) == IF r.status = 401 THEN "refresh" ELSE "respond"

\* After the retry of lines 84-90 control falls through to line 95 whatever
\* the status of the second response.
RetryNext(r) == "respond"

\* A backoff that does not wait.
SleepFor_Skip(seconds) == 0

\* time.sleep(retry_after), line 101: the seconds the caller is suspended.
SleepFor(seconds) == seconds

\* A retry ceiling of ten attempts: the call gives up after the tenth.
AfterSleep_Capped == IF call.sent < 10 THEN "attempt" ELSE "done"

\* Line 102: after the sleep the same call is made again in a nested frame,
\* whatever the number of attempts so far; nothing counts them.
AfterSleep == "attempt"

\* Whether the stack has room for what requests.get (lines 72-76) calls in
\* turn. The frames nest by line 102, one call each; requests.get nests
\* deeper, so the recursion limit is first met inside it.
StackLeft == depth < RecursionLimit

\* A handler that catches only the transport's errors.
Catches_TransportOnly(kind) == kind = "RequestException"

\* Line 109, and lines 251, 293 and 332 of the enumerators: `except Exception`
\* catches whatever the body of the try raises: the ValueError of get_headers
\* (src/auth.py 167-181), of line 78, of int() and of time.sleep(), the
\* transport's exceptions and the RecursionError; in an enumerator the
\* AttributeError of an entry that has no .get.
Catches(kind) == TRUE

\* `return None` (or a payload) out of every nested frame: line 102 returns the
\* callee's value unchanged.
Return(v) ==
    /\ result' = v
    /\ rpc' = "done"

\* An exception raised inside the try of lines 67-107: lines 109-111 log it and
\* return None; an exception the handler does not catch leaves the call.
Raise(kind) ==
    IF Catches(kind)
    THEN Return(None)
    ELSE /\ result' = None
         /\ rpc' = "raised"

\* A caller enters _make_request(url, method, data).
Enter(r) ==
    /\ req' = r
    /\ rpc' = "attempt"
    /\ depth' = 0
    /\ resp' = NoResponse
    /\ result' = None
    /\ wire' = NoWire
    /\ frame' = NewFrame
    /\ call' = NewCall

\* _make_request(url): method defaults to "GET", data to None (line 55).
Get(u) == [url |-> u, method |-> GET, data |-> 0]

\* A method of the client calls self._make_request(url).
Call(u) ==
    /\ Enter(Get(u))
    /\ UNCHANGED <<token, faults, quota, hit, answered, apiVars>>

\* The frame of a _make_request call that has returned, and the record of
\* what it did, are gone.
RequestReturned ==
    /\ rpc' = "idle"
    /\ req' = Get(Url("none", 0, 0))
    /\ depth' = 0
    /\ resp' = NoResponse
    /\ result' = None
    /\ wire' = NoWire
    /\ frame' = NewFrame
    /\ call' = NewCall
    /\ UNCHANGED <<token, faults, quota, answered, apiVars>>

Count(r) == IF r.status = 200 THEN faults ELSE faults + 1

\* Lines 68-78: build the headers from the current token and send the request.
MakeRequest_Send ==
    /\ rpc = "attempt"
    /\ UNCHANGED callerVars
    /\ IF get_headers = 0 \/ Upper(req.method) \notin {GET, POST, PUT}
       THEN \* get_headers() raises, or line 78 raises: caught at line 109
            /\ Raise("ValueError")
            /\ UNCHANGED <<token, req, depth, resp, wire, frame, call, faults, quota, hit, answered, apiVars>>
       ELSE IF ~StackLeft
       THEN \* line 72: requests.get is called once more and the RecursionError
            \* rises inside it, with no response: caught at line 109
            /\ wire' = OnWire(req, get_headers)
            /\ hit' = hit \cup {req.url.kind}
            /\ frame' = [frame EXCEPT !.sent = 1, !.token1 = get_headers]
            /\ call' = [call EXCEPT !.sent = @ + 1]
            /\ resp' = NoResponse
            /\ Raise("RecursionError")
            /\ UNCHANGED <<token, req, depth, faults, quota, answered, apiVars>>
       ELSE \E r \in Answers(req.url) :
            /\ wire' = OnWire(req, get_headers)
            /\ hit' = hit \cup {req.url.kind}
            /\ frame' = [frame EXCEPT !.sent = 1, !.first = r.status, !.token1 = get_headers]
            /\ call' = [call EXCEPT !.sent = @ + 1]
            /\ faults' = Count(r)
            /\ resp' = r
            /\ IF r.status = 0
               THEN Raise("RequestException")
               ELSE /\ rpc' = FirstNext(r)
                    /\ UNCHANGED result
            /\ answered' = Remember(req.url, r)
            /\ UNCHANGED <<token, req, depth, quota, apiVars>>

\* Lines 80-83 and 91-93: on 401 call authenticator.refresh_token() (src/auth.py
\* 183-214), which installs a new token when it succeeds.
MakeRequest_Refresh ==
    /\ rpc = "refresh"
    /\ \E ok \in BOOLEAN :
        /\ frame' = [frame EXCEPT !.refreshes = @ + 1,
                                  !.refreshed = IF ok THEN "ok" ELSE "failed"]
        /\ call' = [call EXCEPT !.refreshes = @ + 1]
        /\ IF ok
           THEN /\ token' = token + 1
                /\ rpc' = "retry"
                /\ UNCHANGED result
           ELSE /\ Return(None)
                /\ UNCHANGED token
    /\ UNCHANGED <<req, depth, resp, wire, faults, quota, hit, answered, apiVars>>
    /\ UNCHANGED callerVars

\* Lines 84-90: rebuild the headers and send the same request once more.
MakeRequest_Retry ==
    /\ rpc = "retry"
    /\ \E r \in Answers(req.url) :
        /\ wire' = OnWire(req, get_headers)
        /\ hit' = hit \cup {req.url.kind}
        /\ frame' = [frame EXCEPT !.sent = @ + 1]
        /\ call' = [call EXCEPT !.sent = @ + 1]
        /\ faults' = Count(r)
        /\ resp' = r
        /\ IF r.status = 0
           THEN Raise("RequestException")
           ELSE /\ rpc' = RetryNext(r)
                /\ UNCHANGED result
        /\ answered' = Remember(req.url, r)
    /\ UNCHANGED <<token, req, depth, quota, apiVars>>
    /\ UNCHANGED callerVars

\* Lines 95-111: dispatch on the status of the response now held.
MakeRequest_Respond ==
    /\ rpc = "respond"
    /\ IF resp.status = 200
       THEN \* line 96: response.json() raises on a malformed body
            /\ Return(response_json(resp.body))
            /\ UNCHANGED <<req, depth, frame, call>>
       ELSE IF resp.status = 429
       THEN LET ra == RetryAfterOf(resp) IN
            IF ~ra.ok \/ ra.val < 0
            THEN \* int() or time.sleep() raises ValueError: caught at line 109
                 /\ Raise("ValueError")
                 /\ UNCHANGED <<req, depth, frame, call>>
            ELSE \* lines 101-102: sleep, then the same call again in a new frame
                 /\ call' = [call EXCEPT !.slept = @ + SleepFor(ra.val)]
                 /\ req' = req
                 /\ depth' = depth + 1
                 /\ frame' = NewFrame
                 /\ rpc' = AfterSleep
                 /\ UNCHANGED result
       ELSE \* lines 103-107
            /\ Return(None)
            /\ UNCHANGED <<req, depth, frame, call>>
    /\ UNCHANGED <<token, resp, wire, faults, quota, hit, answered, apiVars>>
    /\ UNCHANGED callerVars

MakeRequest ==
    \/ MakeRequest_Send
    \/ MakeRequest_Refresh
    \/ MakeRequest_Retry
    \/ MakeRequest_Respond

(***************************************************************************)
(* SharePointClient.__init__, lines 18-30, and _test_authentication, lines *)
(* 32-53: constructing a client sends two requests through _make_request,  *)
(* GET /me and GET /sites/root; what they return is logged and nothing     *)
(* else.                                                                   *)
(***************************************************************************)
\* Where the caller of the constructor goes on: a caller of _make_request, of
\* the enumerators, of analyze_site_permissions, of analyze_all_sites, or of discover_all_sites
\* (main, src/main.py 181, among them).
Entry ==
    CASE who = "request" -> "exec"
      [] who = "enumerate" -> "listing"
      [] who = "analyze" -> "ready"
      [] who = "all" -> "start"
      [] OTHER -> "idle"

\* The constructor is running.
Constructing == pc \in {"new", "test_me", "test_root"}

\* Lines 25-38: the fields are set (self.sites = [], line 27) and
\* _test_authentication asks for /me.
SharePointClient_init ==
    /\ pc = "new"
    /\ Call(Url("me", 0, 0))
    /\ pc' = "test_me"
    /\ UNCHANGED <<sites, discVars, anaVars, batchVars>>

\* Lines 40-48: the answer for /me is logged, then /sites/root is asked for.
test_authentication_me ==
    /\ pc = "test_me"
    /\ rpc = "done"
    /\ Call(Url("root", 0, 0))
    /\ pc' = "test_root"
    /\ UNCHANGED <<sites, discVars, anaVars, batchVars>>

\* Lines 50-53: the answer for /sites/root is logged and the constructor
\* returns; of its two calls the token, and what the remote API has answered,
\* remain. No later request is for /me, so what a steady API answered for it
\* plays no part any more.
test_authentication_root ==
    /\ pc = "test_root"
    /\ rpc = "done"
    /\ rpc' = "idle"
    /\ req' = Get(Url("none", 0, 0))
    /\ depth' = 0
    /\ resp' = NoResponse
    /\ result' = None
    /\ wire' = NoWire
    /\ frame' = NewFrame
    /\ call' = NewCall
    /\ answered' = { a \in answered : a[1].kind # "me" }
    /\ UNCHANGED <<token, faults, quota, apiVars>>
    /\ hit' = {}
    /\ pc' = Entry
    /\ UNCHANGED <<sites, discVars, anaVars, batchVars>>

Construct ==
    \/ SharePointClient_init
    \/ test_authentication_me
    \/ test_authentication_root

(***************************************************************************)
(* The executor on its own: a caller issues _make_request calls one after  *)
(* the other against an API that may answer anything.                      *)
(***************************************************************************)
\* The calls the caller makes: methods "GET", "Post" and "delete".
Requests ==
    { [url |-> Url("site", 1, 0), method |-> m, data |-> 1] :
          m \in {GET, <<80, 111, 115, 116>>, <<100, 101, 108, 101, 116, 101>>} }

Execute ==
    /\ pc = "exec"
    /\ rpc \in {"idle", "done"}
    /\ faults < quota
    /\ \E r \in Requests : Enter(r)
    /\ UNCHANGED <<token, faults, quota, hit, answered, apiVars>>
    /\ UNCHANGED callerVars

\* No _make_request call has been made: the state in which __init__ is
\* entered.
InitExec ==
    /\ rpc = "idle"
    /\ req = Get(Url("none", 0, 0))
    /\ depth = 0
    /\ resp = NoResponse
    /\ result = None
    /\ wire = NoWire
    /\ frame = NewFrame
    /\ call = NewCall
    /\ faults = 0
    /\ hit = {}
    /\ answered = {}

InitCaller ==
    /\ sites = <<>>
    /\ strategy = 0
    /\ acc = <<>>
    /\ todo = <<>>
    /\ raw = <<>>
    /\ discovered = <<>>
    /\ outcomes = <<>>
    /\ pages = <<>>
    /\ site_id = 0
    /\ site_data = None
    /\ libraries = <<>>
    /\ idx = 0
    /\ analysis = None
    /\ lost = {}
    /\ asked = <<>>
    /\ listed = NoListing
    /\ pos = 0
    /\ all_analyses = <<>>
    /\ visited = <<>>
    /\ exit_code = -1
    /\ exported = <<>>
    /\ previous = <<>>
    /\ round = 0
    /\ key_file = NoFile
    /\ config_file = NoFile
    /\ last = NoCall
    /\ earlier = NoCall

InitRequest ==
    /\ InitExec
    /\ InitCaller
    /\ who \in {"request", "enumerate"}
    /\ pc = "new"
    /\ token \in {0, 1}
    /\ quota = IF who = "request" THEN RecursionLimit + 1 ELSE MaxFaults
    /\ tenant = SiteIds
    /\ steady = FALSE

(***************************************************************************)
(* SharePointClient.discover_all_sites, lines 113-152, and its three       *)
(* discovery methods, lines 154-211.                                       *)
(***************************************************************************)
HasValue(data) == data.kind = "collection" /\ data.hasValue

\* "@odata.nextLink" in data, for a data that is not None.
HasNext(data) == data.kind = "collection" /\ data.next # 0

\* A membership test that takes a failed page for a page without link.
NextLinkIn_NoneSafe(data) ==
    IF data # None /\ HasNext(data) THEN "yes" ELSE "no"

\* `"@odata.nextLink" in data`, line 166: None is no container, the test
\* raises TypeError.
NextLinkIn(data) ==
    IF data = None THEN "TypeError" ELSE IF HasNext(data) THEN "yes" ELSE "no"

\* The page numbers of the requests that fetched the pages ps, the first
\* page and then each page's link.
PageUrls(ps) == [i \in 1..Len(ps) |-> IF i = 1 THEN 1 ELSE ps[i - 1].next]

\* A pagination that stops at a link to a page it has read.
Follows_Unvisited(link, ps) == \A i \in 1..Len(ps) : PageUrls(ps)[i] # link

\* Lines 166-168: the loop requests whatever "@odata.nextLink" names; it keeps
\* no count of the pages and no record of the links it has followed.
Follows(link, ps) == TRUE

\* A deduplication that does not test the id for truth.
Dedupe_KeepsFalsy(list) ==
    LET RECURSIVE Loop(_, _, _)
        Loop(rest, unique, seen) ==
            IF rest = <<>> THEN unique
            ELSE IF Head(rest).id \notin seen
                 THEN Loop(Tail(rest), Append(unique, Head(rest)), seen \cup {Head(rest).id})
                 ELSE Loop(Tail(rest), unique, seen)
    IN Loop(list, <<>>, {})

\* A seen_ids that starts from the ids of the cached sites.
seen_ids_cached == { sites[i].id : i \in 1..Len(sites) }

\* Line 143: seen_ids = set().
seen_ids == {}

\* Lines 141-148: keep the first record of every truthy id.
Dedupe(list) ==
    LET RECURSIVE Loop(_, _, _)
        Loop(rest, unique, seen) ==
            IF rest = <<>> THEN unique
            ELSE IF Head(rest).id # 0 /\ Head(rest).id \notin seen
                 THEN Loop(Tail(rest), Append(unique, Head(rest)), seen \cup {Head(rest).id})
                 ELSE Loop(Tail(rest), unique, seen)
    IN Loop(list, <<>>, seen_ids)

\* An accumulation that keeps only the page just read.
Extend_Replaces(list, more) == more

\* list.extend(more), lines 163 and 170.
Extend(list, more) == list \o more

\* A method list walked two at a time.
NextMethod_Skips(k) == k + 2

\* Line 130: the loop goes on to the next entry of discovery_methods.
NextMethod(k) == k + 1

\* A loop that goes on after a method has found sites.
AfterFound_GoesOn(k) == k + 1

\* Line 136: `break` leaves the loop, no entry of discovery_methods follows.
AfterFound(k) == 4

\* A loop without the handler of lines 137-139.
Continues_Reraises(how) == how # "raised"

\* Lines 137-139: an exception raised by a discovery method is logged and
\* the loop continues.
Continues(how) == TRUE

MethodUrl(k) ==
    CASE k = 1 -> Url("search", 1, 0)
      [] k = 2 -> Url("root", 0, 0)
      [] k = 3 -> Url("drives", 0, 0)

MethodPc(k) == CASE k = 1 -> "search_first" [] k = 2 -> "root" [] k = 3 -> "drives"

\* A cache that keeps every record the methods returned.
Cache_All(found, unique_sites) == found

\* Line 151: self.sites = unique_sites.
Cache(found, unique_sites) == unique_sites

\* Lines 141-152: deduplicate, cache and return.
Finish(found) ==
    /\ raw' = found
    /\ discovered' = Dedupe(found)
    /\ sites' = Cache(found, Dedupe(found))
    /\ pc' = "discovered"
    /\ acc' = <<>>
    /\ todo' = <<>>
    /\ UNCHANGED <<strategy, execVars, anaVars, batchVars>>

\* Line 132 onwards: enter discovery method k.
StartMethod(k) ==
    /\ strategy' = k
    /\ acc' = <<>>
    /\ todo' = <<>>
    /\ pc' = MethodPc(k)
    /\ Call(MethodUrl(k))

\* Lines 132-139: the running method returned method_sites, or raised.
MethodEnds(how, method_sites, seen) ==
    LET found == how = "returned" /\ method_sites # <<>>
        now == IF found THEN Extend(raw, method_sites) ELSE raw
        next == IF found THEN AfterFound(strategy) ELSE NextMethod(strategy)
    IN /\ outcomes' = Append(outcomes, [strategy |-> strategy, how |-> how, sites |-> method_sites])
       /\ pages' = seen
       /\ IF ~Continues(how)
          THEN \* the exception leaves discover_all_sites
               /\ pc' = "escaped"
               /\ UNCHANGED <<strategy, acc, todo, raw, discovered, sites, execVars,
                              anaVars, batchVars>>
          ELSE IF next <= 3
          THEN /\ StartMethod(next)
               /\ raw' = now
               /\ UNCHANGED <<discovered, sites, anaVars, batchVars>>
          ELSE Finish(now)

\* Lines 120-132: discover_all_sites starts with the first method.
discover_all_sites ==
    /\ pc = "idle"
    /\ raw' = <<>>
    /\ outcomes' = <<>>
    /\ pages' = <<>>
    /\ StartMethod(1)
    /\ UNCHANGED <<discovered, sites, anaVars, batchVars>>

\* Lines 160-163 and 172: the first page of the site search.
discover_sites_via_search_first ==
    /\ pc = "search_first"
    /\ rpc = "done"
    /\ IF Truthy(result) /\ HasValue(result)
       THEN IF HasNext(result) /\ Follows(result.next, Append(pages, result))
            THEN /\ acc' = Extend(<<>>, result.value)
                 /\ pages' = Append(pages, result)
                 /\ Call(Url("search", result.next, 0))
                 /\ pc' = "search_next"
                 /\ UNCHANGED <<strategy, todo, raw, discovered, outcomes, sites, anaVars, batchVars>>
            ELSE MethodEnds("returned", Extend(<<>>, result.value), Append(pages, result))
       ELSE MethodEnds("returned", <<>>, Append(pages, result))

\* Lines 166-172: a continuation page. `"@odata.nextLink" in data` raises
\* TypeError when the page request failed and data is None.
discover_sites_via_search_next ==
    /\ pc = "search_next"
    /\ rpc = "done"
    /\ LET got == IF Truthy(result) /\ HasValue(result)
                  THEN Extend(acc, result.value) ELSE acc
       IN IF NextLinkIn(result) = "TypeError"
          THEN MethodEnds("raised", <<>>, Append(pages, result))
          ELSE IF NextLinkIn(result) = "yes" /\ Follows(result.next, Append(pages, result))
          THEN /\ Len(pages) + 1 < MaxReads
               /\ acc' = got
               /\ pages' = Append(pages, result)
               /\ Call(Url("search", result.next, 0))
               /\ UNCHANGED <<pc, strategy, todo, raw, discovered, outcomes, sites, anaVars, batchVars>>
          ELSE MethodEnds("returned", got, Append(pages, result))

\* Lines 176-188: the root site, when its lookup gives a truthy payload.
discover_sites_via_root ==
    /\ pc = "root"
    /\ rpc = "done"
    /\ MethodEnds("returned", IF Truthy(result) THEN <<result>> ELSE <<>>, <<>>)

\* Lines 201-207: go to the next drive that names its parent site and look
\* that site up; with no such drive left the method returns.
VisitDrives(drives, got) ==
    LET RECURSIVE Skip(_)
        Skip(ds) == IF ds # <<>> /\ Head(ds).siteId = 0 THEN Skip(Tail(ds)) ELSE ds
        left == Skip(drives)
    IN IF left = <<>>
       THEN MethodEnds("returned", got, <<>>)
       ELSE /\ acc' = got
            /\ UNCHANGED pages
            /\ todo' = Tail(left)
            /\ Call(Url("site", Head(left).siteId, 0))
            /\ pc' = "drive_site"
            /\ UNCHANGED <<strategy, raw, discovered, outcomes, sites, anaVars, batchVars>>

\* Lines 196-201: the drives listing.
discover_sites_via_drives ==
    /\ pc = "drives"
    /\ rpc = "done"
    /\ IF Truthy(result) /\ HasValue(result)
       THEN VisitDrives(result.value, <<>>)
       ELSE MethodEnds("returned", <<>>, <<>>)

\* Lines 205-207: the site of one drive.
discover_sites_via_drives_site ==
    /\ pc = "drive_site"
    /\ rpc = "done"
    /\ VisitDrives(todo, IF Truthy(result) THEN Append(acc, result) ELSE acc)

Discover ==
    \/ discover_all_sites
    \/ discover_sites_via_search_first
    \/ discover_sites_via_search_next
    \/ discover_sites_via_root
    \/ discover_sites_via_drives
    \/ discover_sites_via_drives_site

InitDiscover ==
    /\ InitExec
    /\ InitCaller
    /\ who = "discover"
    /\ pc = "new"
    /\ token = 1
    /\ quota = MaxFaults
    /\ tenant = SiteIds
    /\ steady = FALSE

NextDiscover == Construct \/ Discover \/ MakeRequest

SpecDiscover == InitDiscover /\ [][NextDiscover]_vars

(***************************************************************************)
(* discover_all_sites called twice on one client, against a remote API     *)
(* that answers a URL the same way every time it is asked.                 *)
(***************************************************************************)
\* The caller keeps what the first call returned and calls again.
discover_again ==
    /\ pc = "discovered"
    /\ who = "again"
    /\ round = 0
    /\ previous' = discovered
    /\ round' = 1
    /\ pc' = "idle"
    /\ UNCHANGED <<who, pos, all_analyses, visited, exit_code, exported>>
    /\ UNCHANGED <<sites, discVars, anaVars, execVars>>

InitRepeat ==
    /\ InitExec
    /\ InitCaller
    /\ who = "again"
    /\ pc = "new"
    /\ token = 1
    /\ quota = 1
    /\ tenant = RepeatSiteIds
    /\ steady = TRUE

NextRepeat == Construct \/ discover_again \/ Discover \/ MakeRequest

SpecRepeat == InitRepeat /\ [][NextRepeat]_vars

(***************************************************************************)
(* discover_all_sites against a remote API whose answers do not change and *)
(* whose continuation links may lead back to a page already sent.          *)
(***************************************************************************)
InitPaging ==
    /\ InitExec
    /\ InitCaller
    /\ who = "pager"
    /\ pc = "new"
    /\ token = 1
    /\ quota = 1
    /\ tenant = RepeatSiteIds
    /\ steady = TRUE

NextPaging == Construct \/ Discover \/ MakeRequest

SpecPaging == InitPaging /\ [][NextPaging]_vars

\* The client is never suspended for good: a step that can be taken is taken.
FairPaging == SpecPaging /\ WF_vars(NextPaging)

(***************************************************************************)
(* The enumerators, lines 213-334, and analyze_site_permissions,           *)
(* lines 336-380.                                                          *)
(***************************************************************************)
\* Lines 233-245, 276-287, 318-326: the normalised records.
library_info(drive) == [id |-> drive.id, shared_links |-> <<>>, permissions |-> <<>>]

link_info(item) == [kind |-> "link", id |-> item.id]

perm_info(permission) == [kind |-> "perm", id |-> permission.id]

\* The record the enumerator of a collection makes of an entry.
Normalised(kind, entry) ==
    CASE kind = "libs" -> library_info(entry)
      [] kind = "shared" -> link_info(entry)
      [] kind = "perms" -> perm_info(entry)

\* An enumerator that also takes what the page linked by "@odata.nextLink"
\* holds (one more entry).
Entries_FollowsLink(data) ==
    data.value \o (IF data.next # 0 THEN <<[kind |-> "item", id |-> 0]>> ELSE <<>>)

\* data["value"] of lines 232, 275, 317: the entries of the page received.
Entries(data) == data.value

\* drive.get(...), item.get(...), permission.get(...) of lines 234, 277 and
\* 319: only a JSON object has .get; on any other entry the call raises
\* AttributeError.
Readable(entries) == \A j \in 1..Len(entries) : entries[j].kind # "text"

\* The try of an enumerator and its handler, lines 226-253, 269-295 and
\* 311-334: the first page's "value", normalised; an empty list when the
\* request failed or the payload has no "value"; and when the body of the try
\* raises, `except Exception` returns an empty list, whatever was normalised
\* before. raised: the exception left the enumerator.
Enumerated(kind, data) ==
    IF Truthy(data) /\ HasValue(data)
    THEN IF Readable(Entries(data))
         THEN [raised |-> FALSE,
               value |-> [j \in 1..Len(Entries(data)) |-> Normalised(kind, Entries(data)[j])]]
         ELSE [raised |-> ~Catches("AttributeError"), value |-> <<>>]
    ELSE [raised |-> FALSE, value |-> <<>>]

\* What the enumerator hands to analyze_site_permissions, lines 357, 364, 367.
Listing(kind, data) == Enumerated(kind, data).value

\* The collections the three enumerators list: get_site_libraries,
\* get_library_shared_links, get_library_permissions.
Enumerators == {"libs", "shared", "perms"}

\* Lines 228-229, 271-272 and 313-314: the caller calls an enumerator for
\* site 1 (and library 1), and the enumerator asks for its collection.
enumerate ==
    /\ pc = "listing"
    /\ rpc \in {"idle", "done"}
    /\ faults < quota
    /\ \E k \in Enumerators : Call(Url(k, 1, IF k = "libs" THEN 0 ELSE 1))
    /\ pc' = "enum"
    /\ listed' = NoListing
    /\ UNCHANGED <<site_id, site_data, libraries, idx, analysis, lost, asked>>
    /\ UNCHANGED <<sites, discVars, batchVars>>

\* Lines 231-253, 274-295 and 316-334: the enumerator returns to its caller.
enumerator_returns ==
    /\ pc = "enum"
    /\ rpc = "done"
    /\ listed' = Enumerated(req.url.kind, result)
    /\ pc' = "listing"
    /\ UNCHANGED <<site_id, site_data, libraries, idx, analysis, lost, asked>>
    /\ UNCHANGED <<sites, discVars, batchVars, execVars>>

\* A caller that issues _make_request calls, or one that calls the
\* enumerators, one call after the other, against an API that may answer
\* anything.
NextRequest ==
    \/ Construct
    \/ Execute
    \/ enumerate
    \/ enumerator_returns
    \/ MakeRequest

SpecRequest == InitRequest /\ [][NextRequest]_vars

\* Line 364: library["shared_links"] = ...
SetSharedLinks(library, list) == [library EXCEPT !.shared_links = list]

\* An assignment that drops the library's shared links when no permission
\* was listed.
SetPermissions_ClearsLinks(library, list) ==
    [library EXCEPT !.permissions = list,
                    !.shared_links = IF list = <<>> THEN <<>> ELSE @]

\* Line 367: library["permissions"] = ...
SetPermissions(library, list) == [library EXCEPT !.permissions = list]

\* The fetches of the running analysis that _make_request answered with None.
Lose(kind) == IF result = None THEN lost \cup {<<idx, kind>>} ELSE lost

\* The analysis calls _make_request(u) (through an enumerator for the
\* collections).
Ask(u) ==
    /\ Call(u)
    /\ asked' = Append(asked, u)

\* A loop that stops after the first library.
MoreLibraries_FirstOnly(i, libs) == FALSE

\* `for library in libraries`, line 360: is there a library after the i-th.
MoreLibraries(i, libs) == i < Len(libs)

\* A total that counts the first library only.
SumOfLengths_FirstOnly(lists) == IF lists = <<>> THEN 0 ELSE Len(lists[1])

\* sum(len(...) for lib in libraries), lines 373-374.
SumOfLengths(lists) ==
    LET RECURSIVE Sum(_)
        Sum(i) == IF i > Len(lists) THEN 0 ELSE Len(lists[i]) + Sum(i + 1)
    IN Sum(1)

\* Lines 369-375.
BuildAnalysis(info, libs) ==
    [kind |-> "analysis",
     site_info |-> info,
     libraries |-> libs,
     total_libraries |-> Len(libs),
     total_shared_links |-> SumOfLengths([i \in 1..Len(libs) |-> libs[i].shared_links]),
     total_permissions |-> SumOfLengths([i \in 1..Len(libs) |-> libs[i].permissions])]

\* The site ids analyze_site_permissions is called with when it is called
\* directly.
AnalysedSites == {1}

\* The list the caller's loop walks: main walks the list discover_all_sites
\* returned (src/main.py 181, 197), analyze_all_sites walks self.sites (396).
LoopSites == IF who = "main" THEN discovered ELSE sites

\* The site_id argument: the caller's current site, lines 407 and main 204.
Arguments == IF who \in {"main", "all"} THEN {LoopSites[pos].id} ELSE AnalysedSites

\* An analysis that goes on without site data.
HasSiteData_Always(data) == TRUE

\* Line 352: `if not site_data` is the test for a failed lookup.
HasSiteData(data) == Truthy(data)

\* Lines 346-350: analyze_site_permissions(site_id) looks the site up.
analyze_site_permissions ==
    /\ pc = "ready"
    /\ \E s \in Arguments :
        /\ site_id' = s
        /\ Call(Url("site", s, 0))
        /\ asked' = <<Url("site", s, 0)>>
    /\ pc' = "an_site"
    /\ lost' = {}
    /\ UNCHANGED <<site_data, libraries, idx, analysis, listed, sites, discVars, batchVars>>

\* Lines 352-357 and 228-229: without site data return {}, else list the
\* libraries.
analyze_site_data ==
    /\ pc = "an_site"
    /\ rpc = "done"
    /\ IF ~HasSiteData(result)
       THEN /\ analysis' = EmptyObject
            /\ pc' = "analyzed"
            /\ UNCHANGED <<site_data, asked, execVars>>
       ELSE /\ site_data' = result
            /\ Ask(Url("libs", site_id, 0))
            /\ pc' = "an_libs"
            /\ UNCHANGED analysis
    /\ UNCHANGED <<site_id, libraries, idx, lost, listed, sites, discVars, batchVars>>

\* get_site_libraries, lines 229-249, and the head of the loop of line 360.
get_site_libraries ==
    /\ pc = "an_libs"
    /\ rpc = "done"
    /\ LET libs == Listing("libs", result)
       IN /\ libraries' = libs
          /\ IF libs = <<>>
             THEN /\ analysis' = BuildAnalysis(site_data, libs)
                  /\ pc' = "analyzed"
                  /\ UNCHANGED <<idx, asked, execVars>>
             ELSE /\ idx' = 1
                  /\ Ask(Url("shared", site_id, libs[1].id))
                  /\ pc' = "an_shared"
                  /\ UNCHANGED analysis
    /\ UNCHANGED <<site_id, site_data, lost, listed, sites, discVars, batchVars>>

\* get_library_shared_links, lines 269-291, assigned at line 364.
get_library_shared_links ==
    /\ pc = "an_shared"
    /\ rpc = "done"
    /\ libraries' = [libraries EXCEPT ![idx] = SetSharedLinks(@, Listing("shared", result))]
    /\ Ask(Url("perms", site_id, libraries[idx].id))
    /\ pc' = "an_perms"
    /\ lost' = Lose("shared")
    /\ UNCHANGED <<site_id, site_data, idx, analysis, listed, sites, discVars, batchVars>>

\* get_library_permissions, lines 311-330, assigned at line 367; then the next
\* library, or the analysis of lines 369-380.
get_library_permissions ==
    /\ pc = "an_perms"
    /\ rpc = "done"
    /\ LET libs == [libraries EXCEPT ![idx] = SetPermissions(@, Listing("perms", result))]
       IN /\ libraries' = libs
          /\ IF MoreLibraries(idx, libs)
             THEN /\ idx' = idx + 1
                  /\ Ask(Url("shared", site_id, libs[idx + 1].id))
                  /\ pc' = "an_shared"
                  /\ UNCHANGED analysis
             ELSE /\ analysis' = BuildAnalysis(site_data, libs)
                  /\ pc' = "analyzed"
                  /\ UNCHANGED <<idx, asked, execVars>>
    /\ lost' = Lose("perms")
    /\ UNCHANGED <<site_id, site_data, listed, sites, discVars, batchVars>>

Analyze ==
    \/ analyze_site_permissions
    \/ analyze_site_data
    \/ get_site_libraries
    \/ get_library_shared_links
    \/ get_library_permissions

InitAnalyze ==
    /\ InitExec
    /\ InitCaller
    /\ who = "analyze"
    /\ pc = "new"
    /\ token = 1
    /\ quota = MaxFaults
    /\ tenant = SiteIds
    /\ steady = FALSE

NextAnalyze == Construct \/ Analyze \/ MakeRequest

SpecAnalyze == InitAnalyze /\ [][NextAnalyze]_vars

(***************************************************************************)
(* The callers that analyse a whole tenant: the loop of main, src/main.py  *)
(* 179-251, and SharePointClient.analyze_all_sites, lines 382-415.         *)
(***************************************************************************)
\* The first index from k on whose site has a truthy id; Len(list) + 1 if none.
RECURSIVE NextWithId(_, _)
NextWithId(list, k) ==
    IF k > Len(list) \/ list[k].id # 0 THEN k ELSE NextWithId(list, k + 1)

\* The sites from index k up to (not including) j, all passed over.
Skipped(list, k, j) == [i \in 1..(j - k) |-> [id |-> list[k + i - 1].id, analysed |-> FALSE]]

\* The locals of a discover_all_sites call that has returned, and the record
\* of what it did, are gone.
DiscoveryReturned ==
    /\ RequestReturned
    /\ strategy' = 0
    /\ acc' = <<>>
    /\ todo' = <<>>
    /\ raw' = <<>>
    /\ outcomes' = <<>>
    /\ pages' = <<>>
    /\ hit' = {}

\* The locals of an analyze_site_permissions call that has returned are gone.
AnalysisReturned ==
    /\ RequestReturned
    /\ site_id' = 0
    /\ site_data' = None
    /\ libraries' = <<>>
    /\ idx' = 0
    /\ analysis' = None
    /\ lost' = {}
    /\ asked' = <<>>
    /\ UNCHANGED listed
    /\ hit' = {}

\* A loop that stops at the first site that could not be analysed.
NextSite_StopsOnFailure(k, kept) == IF kept THEN k + 1 ELSE Len(LoopSites) + 1

\* The for loops of src/main.py 197 and of line 396 go on to the next site
\* whether or not the current one gave an analysis (`continue`, lines 209, 412).
NextSite(k, kept) == k + 1

\* A main that exports whatever the loop gathered.
NothingAnalysed_Never(analyses) == FALSE

\* src/main.py 213: `if not all_analyses`.
NothingAnalysed(analyses) == analyses = <<>>

\* src/main.py 213-229: after the loop, give up when nothing was analysed.
MainAfterLoop(analyses) ==
    IF NothingAnalysed(analyses)
    THEN /\ exit_code' = 1
         /\ pc' = "exited"
    ELSE /\ pc' = "export"
         /\ UNCHANGED exit_code

\* src/main.py 197-209: the loop from site k on; a site without id is passed
\* over (line 203), the next one with an id is analysed (line 204).
MainLoop(k, analyses, seen) ==
    LET j == NextWithId(discovered, k)
    IN /\ pos' = j
       /\ all_analyses' = analyses
       /\ visited' = seen \o Skipped(discovered, k, j)
       /\ IF j <= Len(discovered)
          THEN /\ pc' = "ready"
               /\ UNCHANGED exit_code
          ELSE MainAfterLoop(analyses)
       /\ UNCHANGED <<who, exported, previous, round>>
       /\ UNCHANGED <<sites, discovered>>

\* src/main.py 132-150: without stored credentials, or when they cannot be
\* loaded, main returns 1; else it goes on to authenticate.
main_credentials ==
    /\ pc = "credentials"
    /\ who = "main"
    /\ \E loaded \in BOOLEAN :
          IF loaded
          THEN /\ pc' = "authenticate"
               /\ UNCHANGED exit_code
          ELSE /\ pc' = "exited"
               /\ exit_code' = 1
    /\ UNCHANGED <<who, pos, all_analyses, visited, exported, previous, round>>
    /\ UNCHANGED <<sites, discVars, anaVars, execVars>>

\* src/main.py 153-173: a failed authentication is fatal; a successful one gives
\* the authenticator its access token.
main_authenticate ==
    /\ pc = "authenticate"
    /\ who = "main"
    /\ \E auth_success \in BOOLEAN :
          IF auth_success
          THEN /\ token' = 1
               /\ pc' = "start"
               /\ UNCHANGED exit_code
          ELSE /\ pc' = "exited"
               /\ exit_code' = 1
               /\ UNCHANGED token
    /\ UNCHANGED <<who, pos, all_analyses, visited, exported, previous, round>>
    /\ UNCHANGED <<sites, discVars, anaVars>>
    /\ UNCHANGED <<rpc, req, depth, resp, result, wire, frame, call, faults, quota, hit,
                   answered, apiVars>>

\* src/main.py 177: main constructs the client; line 181, the call of
\* discover_all_sites, follows when the constructor has returned.
main ==
    /\ pc = "start"
    /\ who = "main"
    /\ pc' = "new"
    /\ UNCHANGED <<sites, discVars, anaVars, batchVars, execVars>>

\* src/main.py 183-197: no site is fatal; else start the loop.
main_sites ==
    /\ pc = "discovered"
    /\ who = "main"
    /\ IF discovered = <<>>
       THEN /\ exit_code' = 1
            /\ pc' = "exited"
            /\ UNCHANGED <<who, pos, all_analyses, visited, exported, previous, round>>
            /\ UNCHANGED <<sites, discVars, anaVars, execVars>>
       ELSE /\ MainLoop(1, <<>>, <<>>)
            /\ DiscoveryReturned
            /\ UNCHANGED anaVars

\* src/main.py 204-209: keep the analysis if it is truthy, go to the next site.
main_analysis ==
    /\ pc = "analyzed"
    /\ who = "main"
    /\ MainLoop(NextSite(pos, Truthy(analysis)),
                IF Truthy(analysis) THEN Append(all_analyses, analysis) ELSE all_analyses,
                Append(visited, [id |-> discovered[pos].id, analysed |-> Truthy(analysis)]))
    /\ AnalysisReturned
    /\ UNCHANGED <<strategy, acc, todo, raw, outcomes, pages>>

\* src/main.py 229-243: hand the analyses to HTMLExporter.export_to_html; when
\* it raises, return 1, else go on to the logout.
main_export ==
    /\ pc = "export"
    /\ who = "main"
    /\ exported' = Append(exported, all_analyses)
    /\ \E written \in BOOLEAN :
          IF written
          THEN /\ pc' = "logout"
               /\ UNCHANGED exit_code
          ELSE /\ pc' = "exited"
               /\ exit_code' = 1
    /\ UNCHANGED <<who, pos, all_analyses, visited, previous, round>>
    /\ UNCHANGED <<sites, discVars, anaVars, execVars>>

\* src/main.py 246: authenticator.logout() clears the access token
\* (src/auth.py 225-231).
main_logout ==
    /\ pc = "logout"
    /\ who = "main"
    /\ token' = 0
    /\ pc' = "return"
    /\ UNCHANGED batchVars
    /\ UNCHANGED <<sites, discVars, anaVars>>
    /\ UNCHANGED <<rpc, req, depth, resp, result, wire, frame, call, faults, quota, hit,
                   answered, apiVars>>

\* src/main.py 248-251: the closing messages and `return 0`.
main_return ==
    /\ pc = "return"
    /\ who = "main"
    /\ exit_code' = 0
    /\ pc' = "exited"
    /\ UNCHANGED <<who, pos, all_analyses, visited, exported, previous, round>>
    /\ UNCHANGED <<sites, discVars, anaVars, execVars>>

\* A main whose handlers are all `except Exception`.
Handles_ExceptionOnly(kind) == kind # "KeyboardInterrupt"

\* src/main.py 253 and 258: the outer try has a handler for KeyboardInterrupt and
\* one for Exception.
Handles(kind) == TRUE

\* A KeyboardInterrupt arrives while main is inside the try of lines 130-251.
\* No handler below the top level catches it (they are all `except Exception`,
\* lines 207 and 241 and those of the client), so whatever call was running is
\* abandoned; lines 253-256 print, log and return 1.
main_interrupt ==
    /\ who = "main"
    /\ pc \notin {"exited", "interrupted", "crashed"}
    /\ IF Handles("KeyboardInterrupt")
       THEN /\ pc' = "interrupted"
            /\ exit_code' = 1
       ELSE /\ pc' = "crashed"
            /\ UNCHANGED exit_code
    /\ DiscoveryReturned
    /\ AnalysisReturned
    /\ UNCHANGED <<who, pos, all_analyses, visited, exported, previous, round>>
    /\ UNCHANGED <<sites, discovered>>

Main ==
    \/ main_credentials
    \/ main_authenticate
    \/ main
    \/ main_sites
    \/ main_analysis
    \/ main_export
    \/ main_logout
    \/ main_return
    \/ main_interrupt

\* Lines 396-412 and 414-415: the loop from site k on; a site without id is
\* skipped (lines 400-402); after the last site all_analyses is returned.
AllLoop(k, analyses, seen) ==
    LET j == NextWithId(sites, k)
    IN /\ pos' = j
       /\ all_analyses' = analyses
       /\ visited' = seen \o Skipped(sites, k, j)
       /\ pc' = IF j <= Len(sites) THEN "ready" ELSE "returned"
       /\ UNCHANGED <<who, exit_code, exported, previous, round>>
       /\ UNCHANGED <<sites, discovered>>

\* Lines 389-396: run discovery when no site is cached, else start the loop.
analyze_all_sites ==
    /\ pc = "start"
    /\ who = "all"
    /\ IF sites = <<>>
       THEN /\ pc' = "idle"
            /\ UNCHANGED <<sites, discVars, anaVars, batchVars, execVars>>
       ELSE /\ AllLoop(1, <<>>, <<>>)
            /\ UNCHANGED <<strategy, acc, todo, raw, outcomes, pages, anaVars, execVars>>

\* Lines 393-396: discovery has returned, start the loop over self.sites.
analyze_all_sites_discovered ==
    /\ pc = "discovered"
    /\ who = "all"
    /\ AllLoop(1, <<>>, <<>>)
    /\ DiscoveryReturned
    /\ UNCHANGED anaVars

\* A loop that keeps every analysis, the empty result included.
Keeps_Always(site_analysis) == TRUE

\* Line 408: `if analysis:`.
Keeps(site_analysis) == Truthy(site_analysis)

\* Lines 407-409: keep the analysis if it is truthy, go to the next site.
analyze_all_sites_analysis ==
    /\ pc = "analyzed"
    /\ who = "all"
    /\ AllLoop(NextSite(pos, Truthy(analysis)),
               IF Keeps(analysis) THEN Append(all_analyses, analysis) ELSE all_analyses,
               Append(visited, [id |-> sites[pos].id, analysed |-> Truthy(analysis)]))
    /\ AnalysisReturned
    /\ UNCHANGED <<strategy, acc, todo, raw, outcomes, pages>>

AnalyzeAll == analyze_all_sites \/ analyze_all_sites_discovered \/ analyze_all_sites_analysis

\* The faults the remote API may show while a whole tenant is analysed.
InitBatch ==
    /\ InitExec
    /\ InitCaller
    /\ who \in {"main", "all"}
    /\ pc = IF who = "main" THEN "credentials" ELSE "new"
    /\ token = IF who = "main" THEN 0 ELSE 1
    /\ quota = 1
    /\ tenant = TenantSiteIds
    /\ steady = FALSE

NextBatch == Main \/ AnalyzeAll \/ Construct \/ Discover \/ Analyze \/ MakeRequest

SpecBatch == InitBatch /\ [][NextBatch]_vars

(***************************************************************************)
(* One client used twice against a remote API whose answers do not change: *)
(* main's discovery and loop, src/main.py 177-211, then analyze_all_sites  *)
(* on the same client.                                                     *)
(***************************************************************************)
\* main's loop is over; the caller keeps its list and calls analyze_all_sites.
analyze_all_sites_after_main ==
    /\ who = "main"
    /\ round = 0
    /\ pc \in {"export", "exited"}
    /\ exported = <<>>
    /\ previous' = all_analyses
    /\ round' = 1
    /\ who' = "all"
    /\ pc' = "start"
    /\ pos' = 0
    /\ all_analyses' = <<>>
    /\ visited' = <<>>
    /\ exit_code' = -1
    /\ UNCHANGED <<exported, sites, discVars, anaVars, execVars>>

InitTwice ==
    /\ InitExec
    /\ InitCaller
    /\ who = "main"
    /\ pc = "start"
    /\ token = 1
    /\ quota = 1
    /\ tenant = TwiceSiteIds
    /\ steady = TRUE

NextTwice ==
    \/ main
    \/ main_sites
    \/ main_analysis
    \/ analyze_all_sites_after_main
    \/ AnalyzeAll
    \/ Construct
    \/ Discover
    \/ Analyze
    \/ MakeRequest

SpecTwice == InitTwice /\ [][NextTwice]_vars

(***************************************************************************)
(* CredentialManager, src/credential_manager.py: the key file holds the    *)
(* salt followed by the url-safe base64 text of the derived key, the       *)
(* config file the Fernet token of the JSON text of the credentials.       *)
(***************************************************************************)
ClientIds == {1, 2}
TenantIds == {1}
Secrets == {1}
Passwords == {1, 2}

\* os.urandom(16), line 41: any bytes, some of them characters of the base64
\* alphabet and some not.
Byte(inAlphabet) == [kind |-> "byte", alphabet |-> inAlphabet]

Salts == [1..SaltLen -> {Byte(TRUE), Byte(FALSE)}]

\* Lines 42-48 and 71-77: PBKDF2 of the password and the salt, as url-safe
\* base64 text (one unit of text for the 32 bytes of the key).
Derive(password, salt) == <<[kind |-> "key", password |-> password, salt |-> salt]>>

\* base64.urlsafe_b64decode as Fernet calls it: bytes outside the alphabet are
\* discarded, the rest is decoded.
urlsafe_b64decode(bytes) ==
    SelectSeq(bytes, LAMBDA b : IF b.kind = "byte" THEN b.alphabet ELSE TRUE)

\* Fernet(key), lines 89 and 121: the key must decode to exactly 32 bytes,
\* else ValueError.
Fernet(key) ==
    LET decoded == urlsafe_b64decode(key)
    IN IF Len(decoded) = 1 /\ decoded[1].kind = "key"
       THEN [ok |-> TRUE, key |-> decoded]
       ELSE [ok |-> FALSE, key |-> <<>>]

\* json.dumps(credentials).encode(), lines 92-100, and json.loads, line 128.
json_dumps(c, t, s) ==
    [kind |-> "json", client_id |-> c, tenant_id |-> t, client_secret |-> s, version |-> "1.0"]

json_loads(text) ==
    [kind |-> "dict", client_id |-> text.client_id, tenant_id |-> text.tenant_id,
     client_secret |-> text.client_secret, version |-> text.version]

\* fernet.encrypt, line 100, and fernet.decrypt, line 127 (a token made with
\* another key raises InvalidToken).
encrypt(f, text) == [kind |-> "token", key |-> f.key, text |-> text]

decrypt(f, tok) ==
    IF tok.key = f.key THEN [ok |-> TRUE, text |-> tok.text] ELSE [ok |-> FALSE, text |-> None]

\* _get_or_create_key, lines 24-54: the whole content of an existing key file,
\* else a key derived with a fresh salt, written after the salt.
get_or_create_key(password, salt) ==
    IF key_file # NoFile
    THEN [key |-> key_file.bytes, file |-> key_file]
    ELSE [key |-> Derive(password, salt),
          file |-> [kind |-> "file", bytes |-> salt \o Derive(password, salt)]]

\* _load_key, lines 56-82: derive the key from the password and the stored
\* salt; a missing file or a key other than the stored one raises.
load_key(password) ==
    IF key_file = NoFile
    THEN [ok |-> FALSE, key |-> <<>>]
    ELSE LET data == key_file.bytes
             salt == SubSeq(data, 1, SaltLen)
             stored_key == SubSeq(data, SaltLen + 1, Len(data))
             key == Derive(password, salt)
         IN IF key # stored_key THEN [ok |-> FALSE, key |-> <<>>]
            ELSE [ok |-> TRUE, key |-> key]

\* save_credentials, lines 84-111: what it returns and the files it leaves.
Saved(c, t, s, password, salt) ==
    LET k == get_or_create_key(password, salt)
        f == Fernet(k.key)
    IN IF f.ok
       THEN [returned |-> TRUE, key_file |-> k.file,
             config_file |-> encrypt(f, json_dumps(c, t, s))]
       ELSE [returned |-> FALSE, key_file |-> k.file, config_file |-> config_file]

\* load_credentials, lines 113-135: the stored dict, or None.
Loaded(password) ==
    IF config_file = NoFile THEN None
    ELSE LET k == load_key(password)
         IN IF ~k.ok THEN None
            ELSE LET f == Fernet(k.key)
                 IN IF ~f.ok THEN None
                    ELSE LET d == decrypt(f, config_file)
                         IN IF d.ok THEN json_loads(d.text) ELSE None

Returned(made) ==
    /\ earlier' = last
    /\ last' = made
    /\ UNCHANGED <<token, rpc, req, depth, resp, result, wire, frame, call, faults, quota,
                   answered, hit, tenant, steady>>
    /\ UNCHANGED callerVars

save_credentials ==
    /\ pc = "store"
    /\ \E c \in ClientIds, t \in TenantIds, s \in Secrets, p \in Passwords, salt \in Salts :
          LET r == Saved(c, t, s, p, salt)
          IN /\ key_file' = r.key_file
             /\ config_file' = r.config_file
             /\ Returned([op |-> "save", client_id |-> c, tenant_id |-> t,
                          client_secret |-> s, password |-> p, returned |-> r.returned])

load_credentials ==
    /\ pc = "store"
    /\ \E p \in Passwords :
          /\ Returned([op |-> "load", client_id |-> 0, tenant_id |-> 0,
                       client_secret |-> 0, password |-> p, returned |-> Loaded(p)])
          /\ UNCHANGED <<key_file, config_file>>

\* update_credentials, lines 152-178: load, replace the fields given (0: not
\* given), save again.
update_credentials ==
    /\ pc = "store"
    /\ \E c \in ClientIds \cup {0}, t \in TenantIds \cup {0}, s \in Secrets \cup {0},
          p \in Passwords, salt \in Salts :
          LET existing == Loaded(p)
              r == Saved(IF c # 0 THEN c ELSE existing.client_id,
                         IF t # 0 THEN t ELSE existing.tenant_id,
                         IF s # 0 THEN s ELSE existing.client_secret, p, salt)
              made == [op |-> "update", client_id |-> c, tenant_id |-> t,
                       client_secret |-> s, password |-> p, returned |-> FALSE]
          IN IF ~Truthy(existing)
             THEN /\ Returned(made)
                  /\ UNCHANGED <<key_file, config_file>>
             ELSE /\ key_file' = r.key_file
                  /\ config_file' = r.config_file
                  /\ Returned([made EXCEPT !.returned = r.returned])

\* delete_credentials, lines 141-150: both files are removed; the method has no
\* return statement, so it returns None.
delete_credentials ==
    /\ pc = "store"
    /\ key_file' = NoFile
    /\ config_file' = NoFile
    /\ Returned([op |-> "delete", client_id |-> 0, tenant_id |-> 0,
                 client_secret |-> 0, password |-> 0, returned |-> None])

InitCredentials ==
    /\ InitExec
    /\ InitCaller
    /\ who = "none"
    /\ pc = "store"
    /\ token = 0
    /\ quota = 0
    /\ tenant = {}
    /\ steady = FALSE

NextCredentials ==
    \/ save_credentials
    \/ load_credentials
    \/ update_credentials
    \/ delete_credentials

SpecCredentials == InitCredentials /\ [][NextCredentials]_vars

(***************************************************************************)
(* Properties of the aggregator.                                           *)
(***************************************************************************)
\* C1: every Site Analysis returned carries total_libraries = the number of
\* its libraries, total_shared_links = the number of shared links held by its
\* libraries and total_permissions = the number of permissions held by them,
\* whichever listings failed.
C1_TotalsMatchLibraries ==
    (pc = "analyzed" /\ analysis # EmptyObject) =>
        LET libs == analysis.libraries
        IN /\ analysis.total_libraries = Cardinality(DOMAIN libs)
           /\ analysis.total_shared_links =
                Cardinality(UNION { { <<i, j>> : j \in 1..Len(libs[i].shared_links) } :
                                      i \in DOMAIN libs })
           /\ analysis.total_permissions =
                Cardinality(UNION { { <<i, j>> : j \in 1..Len(libs[i].permissions) } :
                                      i \in DOMAIN libs })
           /\ analysis.libraries = libraries

C1_Witness ==
    /\ pc = "analyzed"
    /\ analysis # EmptyObject
    /\ Len(analysis.libraries) = 2
    /\ Len(analysis.libraries[1].shared_links) = 3
    /\ Len(analysis.libraries[1].permissions) = 1
    /\ Len(analysis.libraries[2].shared_links) = 0
    /\ Len(analysis.libraries[2].permissions) = 2
    /\ analysis.total_libraries = 2
    /\ analysis.total_shared_links = 3
    /\ analysis.total_permissions = 3
    /\ faults > 0

\* The entries of a listing the API sent, reduced to what the normalised
\* records keep of them; nothing when there is no listing.
Sent(data) ==
    IF data.kind = "collection" /\ data.hasValue
    THEN [j \in 1..Len(data.value) |-> data.value[j].id]
    ELSE <<>>

Ids(records) == [j \in 1..Len(records) |-> records[j].id]

\* C15: the step that stores a library's shared links stores what the API sent
\* for them (nothing when the fetch failed), leaves the library's permissions
\* and every other library as they are, and goes on to fetch the permissions
\* of the same library; the step that stores its permissions likewise touches
\* nothing else and goes on to the next library, so that an analysis ends with
\* every library visited and only the failed fetches' collections lost.
C15_FailuresIsolated ==
    /\ [][(pc = "an_shared" /\ rpc = "done")
            => (/\ Ids(libraries'[idx].shared_links) = Sent(result)
                /\ libraries'[idx].permissions = libraries[idx].permissions
                /\ libraries'[idx].id = libraries[idx].id
                /\ \A i \in 1..Len(libraries) : i # idx => libraries'[i] = libraries[i]
                /\ Len(libraries') = Len(libraries)
                /\ pc' = "an_perms"
                /\ rpc' = "attempt"
                /\ req'.url = Url("perms", site_id, libraries[idx].id))]_vars
    /\ [][(pc = "an_perms" /\ rpc = "done")
            => (/\ Ids(libraries'[idx].permissions) = Sent(result)
                /\ libraries'[idx].shared_links = libraries[idx].shared_links
                /\ libraries'[idx].id = libraries[idx].id
                /\ \A i \in 1..Len(libraries) : i # idx => libraries'[i] = libraries[i]
                /\ Len(libraries') = Len(libraries)
                /\ IF idx < Len(libraries)
                   THEN /\ pc' = "an_shared"
                        /\ rpc' = "attempt"
                        /\ idx' = idx + 1
                        /\ req'.url = Url("shared", site_id, libraries[idx + 1].id)
                   ELSE /\ pc' = "analyzed"
                        /\ analysis'.libraries = libraries')]_vars
    /\ [](\A f \in lost : f[1] \in 1..Len(libraries) /\ f[1] <= idx)
    /\ []((pc = "analyzed" /\ analysis # EmptyObject /\ libraries # <<>>)
            => idx = Len(libraries))

C15_Witness ==
    /\ pc = "analyzed"
    /\ analysis # EmptyObject
    /\ Len(analysis.libraries) = 2
    /\ lost = {<<1, "shared">>}
    /\ analysis.libraries[1].shared_links = <<>>
    /\ Len(analysis.libraries[1].permissions) = 1
    /\ Len(analysis.libraries[2].shared_links) = 2
    /\ Len(analysis.libraries[2].permissions) = 2

\* C19: an enumerator makes one request, for its collection URL, and what it
\* returns is the entries of the page received, normalised, whether or not
\* that page links to a further one; the request after it is the next
\* enumerator's, never one for a linked page.
C19_SinglePage ==
    /\ [](pc = "an_libs" => req.url = Url("libs", site_id, 0))
    /\ [](pc = "an_shared" => req.url = Url("shared", site_id, libraries[idx].id))
    /\ [](pc = "an_perms" => req.url = Url("perms", site_id, libraries[idx].id))
    /\ []((pc \in {"an_libs", "an_shared", "an_perms"} /\ wire # NoWire)
            => (wire.url = req.url /\ wire.method = GET))
    /\ [][(pc = "an_libs" /\ rpc = "done")
            => (/\ pc' # pc
                /\ Ids(libraries') = Sent(result)
                /\ \A j \in 1..Len(libraries') :
                      libraries'[j].shared_links = <<>> /\ libraries'[j].permissions = <<>>)]_vars
    /\ [][(pc = "an_shared" /\ rpc = "done")
            => (pc' # pc /\ Ids(libraries'[idx].shared_links) = Sent(result))]_vars
    /\ [][(pc = "an_perms" /\ rpc = "done")
            => ((pc' = "an_shared" => idx' # idx)
                /\ Ids(libraries'[idx].permissions) = Sent(result))]_vars

C19_Witness ==
    /\ pc = "analyzed"
    /\ analysis # EmptyObject
    /\ resp.status = 200
    /\ HasNext(resp.body)
    /\ Len(resp.body.value) = 2
    /\ Len(libraries) = 2
    /\ Len(libraries[idx].permissions) = 2

(***************************************************************************)
(* Properties of the tenant-wide callers.                                  *)
(***************************************************************************)
\* The sites the loop has gone through that gave an analysis, in order.
Analysed == SelectSeq(visited, LAMBDA v : v.analysed)

\* C14: an analysis whose site lookup failed returns the empty result with no
\* request sent but the lookup, the library, shared-link and permission
\* requests are sent only for a site whose lookup succeeded, and the list
\* either caller builds holds analyses with site data only, one for each
\* site that gave one.
C14_FailedLookupSkipsSite ==
    /\ pc \in {"an_libs", "an_shared", "an_perms"} => Truthy(site_data)
    /\ (pc = "analyzed" /\ analysis = EmptyObject)
         => (hit = {"site"} /\ site_data = None /\ libraries = <<>>)
    /\ (pc = "analyzed" /\ analysis # EmptyObject)
         => (Truthy(analysis.site_info) /\ {"site", "libs"} \subseteq hit)
    /\ \A i \in 1..Len(all_analyses) :
          all_analyses[i].kind = "analysis" /\ Truthy(all_analyses[i].site_info)
    /\ Len(all_analyses) = Len(Analysed)

C14_Witness ==
    /\ who = "main"
    /\ pc = "exited"
    /\ exit_code = 0
    /\ Len(visited) = 2
    /\ ~visited[1].analysed
    /\ visited[2].analysed
    /\ Len(all_analyses) = 1
    /\ all_analyses[1].site_info.id = visited[2].id
    /\ all_analyses[1].total_libraries = 0

\* C16: the loop of either caller goes through the discovered sites in
\* order, one analysis each, whatever the earlier sites gave; the list it
\* builds holds the analyses of exactly the sites that gave one, in that
\* order, and when the loop is over every site has been visited.
C16_BatchIsolation ==
    who \in {"main", "all"} =>
        /\ Len(visited) <= Len(LoopSites)
        /\ \A i \in 1..Len(visited) : visited[i].id = LoopSites[i].id
        /\ pc \in {"ready", "an_site", "an_libs", "an_shared", "an_perms", "analyzed"}
             => (Len(visited) = pos - 1 /\ pos <= Len(LoopSites))
        /\ pc \in {"an_site", "an_libs", "an_shared", "an_perms", "analyzed"}
             => site_id = LoopSites[pos].id
        /\ Len(all_analyses) = Len(Analysed)
        /\ \A k \in 1..Len(all_analyses) : all_analyses[k].site_info.id = Analysed[k].id
        /\ pc \in {"returned", "export", "logout", "return", "exited"}
             => Len(visited) = Len(LoopSites)

C16_Witness ==
    /\ who = "all"
    /\ pc = "returned"
    /\ Len(sites) = 3
    /\ Len(visited) = 3
    /\ visited[1].analysed
    /\ ~visited[2].analysed
    /\ visited[3].analysed
    /\ Len(all_analyses) = 2
    /\ all_analyses[1].site_info.id = sites[1].id
    /\ all_analyses[2].site_info.id = sites[3].id

\* C17: main hands the exporter a non-empty list only, and only once; when
\* discovery gave no site, or no site gave an analysis, main returns 1 and
\* the exporter was never called; main returns 0 only after an export.
C17_FatalMeansNoReport ==
    who = "main" =>
        /\ Len(exported) <= 1
        /\ \A i \in 1..Len(exported) : exported[i] # <<>> /\ exported[i] = all_analyses
        /\ pc \notin {"exited", "interrupted"} => exit_code = -1
        /\ pc \notin {"logout", "return", "exited", "interrupted"} => exported = <<>>
        /\ pc \in {"exited", "interrupted"} => exit_code \in {0, 1}
        /\ (pc \in {"exited", "interrupted"} /\ (discovered = <<>> \/ all_analyses = <<>>))
             => (exit_code = 1 /\ exported = <<>>)
        /\ exit_code = 0 => Len(exported) = 1

C17_Witness ==
    /\ who = "main"
    /\ pc = "exited"
    /\ Len(discovered) = 3
    /\ Len(visited) = 3
    /\ \A i \in 1..3 : ~visited[i].analysed
    /\ exit_code = 1
    /\ exported = <<>>

(***************************************************************************)
(* Properties of site discovery.                                           *)
(***************************************************************************)
\* The records of `list` that carry a truthy id no earlier record carries,
\* in the order of `list`.
FirstOccurrences(list) ==
    LET keep(i) == list[i].id # 0 /\ \A j \in 1..(i - 1) : list[j].id # list[i].id
        RECURSIVE From(_)
        From(i) == IF i > Len(list) THEN <<>>
                   ELSE (IF keep(i) THEN <<list[i]>> ELSE <<>>) \o From(i + 1)
    IN From(1)

\* Whether the method recorded as outcomes[i] raised or returned nothing.
FailedOrEmpty(i) == outcomes[i].how = "raised" \/ outcomes[i].sites = <<>>

\* C2: the list discover_all_sites returns (and caches) has no two records of
\* the same id and no record with a falsy id: it is the raw result of the last
\* method run, cut down to the first occurrence of every truthy id, in order.
C2_UniqueFirstOccurrence ==
    pc = "discovered" =>
        /\ \A i, j \in 1..Len(discovered) : i # j => discovered[i].id # discovered[j].id
        /\ \A i \in 1..Len(discovered) : discovered[i].id # 0
        /\ raw = outcomes[Len(outcomes)].sites
        /\ discovered = FirstOccurrences(raw)
        /\ sites = discovered

C2_Witness ==
    /\ pc = "discovered"
    /\ Len(raw) = 3
    /\ Len(discovered) = 1
    /\ \E i \in 1..3 : raw[i].id = 0
    /\ \E i \in 1..3 : raw[i].id # 0 /\ raw[i] # discovered[1]

\* C3: the methods run in the order search, root, drives; once a method has
\* returned sites nothing is invoked after it, no endpoint of a later method
\* is ever sent a request, and the raw result is that one method's list.
C3_ShortCircuit ==
    /\ \A i \in 1..Len(outcomes) :
          /\ outcomes[i].strategy = i
          /\ outcomes[i].sites # <<>>
               => (i = Len(outcomes) /\ pc = "discovered" /\ raw = outcomes[i].sites)
    /\ (pc # "exec" /\ ~Constructing) =>
          /\ "search" \in hit => strategy >= 1
          /\ "root" \in hit => strategy >= 2
          /\ ("drives" \in hit \/ "site" \in hit) => strategy >= 3
          /\ pc # "discovered" => raw = <<>>

C3_Witness ==
    /\ pc = "discovered"
    /\ strategy = 1
    /\ hit = {"search"}
    /\ Len(raw) = 2
    /\ Len(discovered) = 2

\* C4: method k+1 is invoked exactly when methods 1..k each raised or returned
\* nothing: a running method follows only failed or empty ones, and discovery
\* ends before the third method only on a method that returned sites.
C4_NextMethodOnFailure ==
    /\ \A i \in 1..Len(outcomes) : outcomes[i].strategy = i
    /\ pc \in {"search_first", "search_next", "root", "drives", "drive_site"} =>
          /\ strategy = Len(outcomes) + 1
          /\ \A i \in 1..Len(outcomes) : FailedOrEmpty(i)
    /\ pc = "discovered" =>
          /\ strategy = Len(outcomes)
          /\ \A i \in 1..(Len(outcomes) - 1) : FailedOrEmpty(i)
          /\ strategy < 3 => ~FailedOrEmpty(strategy)

C4_Witness ==
    /\ pc = "discovered"
    /\ Len(outcomes) = 3
    /\ outcomes[1].how = "raised"
    /\ outcomes[2].how = "returned" /\ outcomes[2].sites = <<>>
    /\ outcomes[3].sites # <<>>

\* The "value" arrays of the pages, concatenated in page order.
PageValues(ps) ==
    LET RECURSIVE Cat(_)
        Cat(i) == IF i > Len(ps) THEN <<>>
                  ELSE (IF HasValue(ps[i]) THEN ps[i].value ELSE <<>>) \o Cat(i + 1)
    IN Cat(1)

\* C5: the site search follows the continuation links until a page has none,
\* and what it has gathered is the concatenation, in page order, of the
\* "value" arrays of the pages read: while it runs, and when it returns its
\* sites to discover_all_sites (given a first page that carries "value").
C5_PagesConcatenated ==
    /\ pc = "search_next" =>
          /\ acc = PageValues(pages)
          /\ \A i \in 1..Len(pages) : HasNext(pages[i]) /\ pages[i].next = i + 1
          /\ req.url = Url("search", Len(pages) + 1, 0)
    /\ (pc = "discovered" /\ strategy = 1) =>
          /\ pages # <<>>
          /\ raw = PageValues(pages)
          /\ ~HasNext(pages[Len(pages)])
          /\ \A i \in 1..(Len(pages) - 1) : HasNext(pages[i])

C5_Witness ==
    /\ pc = "discovered"
    /\ strategy = 1
    /\ Len(pages) = 3
    /\ \A i \in 1..3 : HasValue(pages[i]) /\ Len(pages[i].value) = 1
    /\ Len(raw) = 3

\* C13: no exception leaves discover_all_sites, and when each of the three
\* methods has raised or returned nothing the call returns the empty list
\* and the cached site set is empty.
C13_AllFailGivesEmpty ==
    /\ pc # "escaped"
    /\ (Len(outcomes) = 3 /\ \A i \in 1..3 : FailedOrEmpty(i))
         => (/\ pc = "discovered"
             /\ discovered = <<>>
             /\ sites = <<>>)

C13_Witness ==
    /\ pc = "discovered"
    /\ Len(outcomes) = 3
    /\ outcomes[1].how = "raised"
    /\ outcomes[2].how = "returned" /\ outcomes[2].sites = <<>>
    /\ outcomes[3].how = "returned" /\ outcomes[3].sites = <<>>
    /\ "site" \in hit
    /\ discovered = <<>>
    /\ sites = <<>>

\* C18: against a remote API that answers every URL the same way each time,
\* a second discover_all_sites call returns (and caches) the very list the
\* first call returned.
C18_DiscoveryIdempotent ==
    (round = 1 /\ pc = "discovered") => (discovered = previous /\ sites = previous)

C18_Witness ==
    /\ round = 1
    /\ pc = "discovered"
    /\ Len(previous) = 1
    /\ Len(raw) = 2
    /\ Len(pages) = 2
    /\ raw[1].id = raw[2].id
    /\ discovered = previous

(***************************************************************************)
(* Properties of the executor.                                             *)
(***************************************************************************)
\* The 429 response held by the frame carries a Retry-After that is an
\* integer the frame can sleep for.
UsableRetryAfter(r) ==
    /\ r.status = 429
    /\ r.hasRetryAfter
    /\ PyInt(r.retryAfter).ok
    /\ PyInt(r.retryAfter).val >= 0

\* C6: a frame whose first attempt got 401, whose refresh succeeded and whose
\* retry got a (parseable) 200 returns that payload, having called refresh
\* exactly once and sent exactly two requests, the second carrying the token
\* installed by the refresh.
C6_RefreshThenRetry ==
    (/\ rpc = "done"
     /\ frame.first = 401
     /\ frame.refreshed = "ok"
     /\ resp.status = 200
     /\ resp.body # Malformed)
    => /\ result = resp.body
       /\ frame.refreshes = 1
       /\ frame.sent = 2
       /\ wire.token = token
       /\ wire.token # frame.token1
       /\ wire = OnWire(req, token)
       /\ depth = 0 => (call.sent = 2 /\ call.refreshes = 1)

C6_Witness ==
    /\ rpc = "done"
    /\ depth = 0
    /\ frame.first = 401
    /\ frame.refreshed = "ok"
    /\ resp.status = 200
    /\ result.kind = "object"

\* C7: the 401 path does not loop. A failed refresh ends the frame with
\* failure after its single request; a 401 on the retry ends it with failure
\* after two requests and one refresh; no frame ever refreshes twice or sends
\* a third request.
C7_NoLoopOn401 ==
    /\ frame.sent <= 2
    /\ frame.refreshes <= 1
    /\ frame.refreshed = "failed"
         => (rpc = "done" /\ result = None /\ frame.sent = 1 /\ frame.refreshes = 1)
    /\ (frame.refreshed = "ok" /\ frame.sent = 2 /\ resp.status = 401)
         => /\ rpc \in {"respond", "done"}
            /\ frame.refreshes = 1
            /\ rpc = "done" => result = None

C7_Witness ==
    /\ rpc = "done"
    /\ frame.refreshed = "ok"
    /\ frame.sent = 2
    /\ resp.status = 401
    /\ result = None

\* C8: on a 429 with Retry-After: N the step into the next attempt suspends
\* the caller for at least N seconds and re-issues the identical call, every
\* request on the wire is the frame's own call, and a later attempt's 200 is
\* what the call returns.
C8_BackoffThenRetry ==
    /\ [][(rpc = "respond" /\ UsableRetryAfter(resp) /\ rpc' = "attempt")
            => (/\ call'.slept - call.slept >= PyInt(resp.retryAfter).val
                /\ req' = req
                /\ depth' = depth + 1)]_vars
    /\ [][(wire' # wire /\ wire' # NoWire)
            => (wire'.url = req.url /\ wire'.method = Upper(req.method))]_vars
    /\ [][(rpc = "respond" /\ resp.status = 200 /\ resp.body # Malformed)
            => (rpc' = "done" /\ result' = resp.body)]_vars

C8_Witness ==
    /\ rpc = "done"
    /\ depth = 1
    /\ call.slept = 2
    /\ resp.status = 200
    /\ result.kind = "object"

\* C9 (as claimed): a 429 without a Retry-After header, or with one that is
\* no valid integer, makes the executor sleep the default 60 seconds and
\* retry the identical call.
C9_DefaultOnAbsentOrInvalid ==
    [][(/\ rpc = "respond"
        /\ resp.status = 429
        /\ (~resp.hasRetryAfter \/ ~PyInt(resp.retryAfter).ok))
         => (/\ rpc' = "attempt"
             /\ call'.slept = call.slept + DefaultRetryAfter
             /\ req' = req)]_vars

Sleepable(r) == r.status = 429 /\ (~r.hasRetryAfter \/ UsableRetryAfter(r))

C11_OtherStatusEndsCall ==
    /\ [][(call'.sent = call.sent + 1 /\ resp'.status \notin {0, 200, 401, 429})
            => rpc' = "respond"]_vars
    /\ [][(rpc = "respond" /\ resp.status \notin {200, 401, 429})
            => (/\ rpc' = "done"
                /\ result' = None
                /\ call' = call
                /\ wire' = wire
                /\ token' = token)]_vars
    /\ [][(call'.sent = call.sent + 1 /\ resp'.status = 0)
            => (rpc' = "done" /\ result' = None)]_vars
    /\ [][(rpc = "done" /\ call' # call)
            => (/\ call' = NewCall
                /\ depth' = 0
                /\ rpc' = "attempt" \/ (rpc' = "idle" /\ Constructing))]_vars

C11_Witness ==
    /\ rpc = "done"
    /\ resp.status = 500
    /\ call = [sent |-> 1, refreshes |-> 0, slept |-> 0]
    /\ wire = OnWire(req, token)
    /\ result = None

\* C12: a frame that holds a 200 response whose body is not parseable is about
\* to return, and what it returns is failure (None).
C12_MalformedIsFailure ==
    (frame.sent > 0 /\ resp.status = 200 /\ resp.body = Malformed)
    => /\ rpc \in {"respond", "done"}
       /\ rpc = "done" => result = None

C12_Witness ==
    /\ rpc = "done"
    /\ resp = Ok(Malformed)
    /\ result = None
    /\ call.sent = 1

\* C20: the request last put on the wire carries the authenticator's current
\* token; the one exception is the moment between a successful refresh and
\* the retry, when the last request sent is the one that was answered 401.
C20_CurrentTokenOnWire ==
    wire # NoWire =>
        /\ wire.token # 0
        /\ wire.token = IF rpc = "retry" THEN token - 1 ELSE token

C20_Witness ==
    /\ rpc = "done"
    /\ token = 3
    /\ wire.token = 3
    /\ depth = 1
    /\ call.refreshes = 1
    /\ frame.refreshes = 0
    /\ resp.status = 200

\* An enumerator has returned to the caller that called it.
EnumeratorReturned == pc = "listing" /\ rpc = "done"

\* C21: _make_request never raises for the expected failure modes: without a
\* token (get_headers raises) or with an unsupported method it returns the
\* failure value and nothing was sent; after a transport error or a status
\* other than 200 it returns the failure value. No enumerator raises either:
\* each returns a list, which is empty when its request failed, when the
\* payload has no "value", and when an entry of the listing cannot be read.
C21_NeverRaises ==
    /\ rpc # "raised"
    /\ token = 0 => wire = NoWire /\ call.sent = 0 /\ hit = {}
    /\ rpc = "done" /\ token = 0 => result = None
    /\ rpc = "done" /\ Upper(req.method) \notin {GET, POST, PUT}
          => result = None /\ call.sent = 0 /\ wire = NoWire
    /\ rpc = "done" /\ call.sent > 0 /\ resp.status # 200 => result = None
    /\ ~listed.raised
    /\ (EnumeratorReturned /\ ~(Truthy(result) /\ HasValue(result))) => listed.value = <<>>
    /\ (EnumeratorReturned /\ Truthy(result) /\ HasValue(result))
          => \/ listed.value = <<>> /\ ~Readable(result.value)
             \/ Len(listed.value) = Len(result.value) /\ Readable(result.value)

C21_Witness ==
    /\ EnumeratorReturned
    /\ req.url.kind = "shared"
    /\ resp.status = 200
    /\ HasValue(result)
    /\ Len(result.value) = 2
    /\ ~Readable(result.value)
    /\ listed = NoListing
    /\ token = 1

\* C22: a keyboard interrupt at any point of main's work (credential loading,
\* authentication, client construction, discovery, analysis, report generation)
\* is caught at the top level: main returns 1, the interrupted call is abandoned,
\* and nothing is written by the interrupt or after it: a report handed to the
\* exporter before the interrupt is the only one there can be, and an interrupt
\* up to the end of the analysis leaves none.
C22_InterruptExitsCleanly ==
    /\ [](pc # "crashed")
    /\ [](pc = "interrupted" =>
            /\ exit_code = 1
            /\ rpc = "idle"
            /\ ~ENABLED NextBatch)
    /\ [][pc' = "interrupted" =>
            /\ exported' = exported
            /\ pc \notin {"logout", "return"} => exported = <<>>
            /\ UNCHANGED <<token, all_analyses, visited, sites, fileVars>>]_vars

C22_Witness ==
    /\ pc = "interrupted"
    /\ who = "main"
    /\ exit_code = 1
    /\ Len(all_analyses) = 1
    /\ exported = <<all_analyses>>
    /\ token = 0

\* C24 as stated: within one top-level _make_request call refresh_token is
\* invoked at most once, whatever the server answers.
C24_OncePerCall == call.refreshes <= 1

\* C24: refresh_token is invoked at most once in each frame of a top-level
\* _make_request call, hence at most once for each attempt that follows a 429
\* backoff; a second refresh in the same call happens only in a later frame,
\* after the call has slept.
C24_OncePerFrame ==
    /\ frame.refreshes <= 1
    /\ call.refreshes <= depth + 1
    /\ call.refreshes >= 2 => (depth >= 1 /\ call.sent >= 3)
    /\ rpc = "refresh" => (frame.refreshes = 0 /\ frame.sent = 1 /\ resp.status = 401)

C24_Witness ==
    /\ rpc = "done"
    /\ depth = 1
    /\ call.refreshes = 2
    /\ frame.refreshes = 1
    /\ frame.first = 401
    /\ call.sent = 4
    /\ resp.status = 200

\* C25: when the request for a continuation page of the site search fails, the
\* search raises: it yields no site, the pages gathered before are dropped, and
\* discover_all_sites goes on to the root method as after any failed method.
C25_FailedPageDropsSearch ==
    /\ \A i \in 1..Len(outcomes) :
          outcomes[i].how = "raised" =>
              (i = 1 /\ outcomes[i].strategy = 1 /\ outcomes[i].sites = <<>>)
    /\ (pages # <<>> /\ pages[Len(pages)] = None /\ Len(pages) > 1) =>
          /\ outcomes = <<[strategy |-> 1, how |-> "raised", sites |-> <<>>]>>
          /\ pc = "root"
          /\ strategy = 2
          /\ req.url = Url("root", 0, 0)
          /\ raw = <<>>
          /\ acc = <<>>
    /\ (pc = "discovered" /\ outcomes[1].how = "raised") =>
          /\ Len(outcomes) >= 2
          /\ outcomes[2].strategy = 2
          /\ raw = outcomes[2].sites
                    \o (IF Len(outcomes) = 3 THEN outcomes[3].sites ELSE <<>>)

C25_Witness ==
    /\ pc = "root"
    /\ rpc = "done"
    /\ outcomes = <<[strategy |-> 1, how |-> "raised", sites |-> <<>>]>>
    /\ Len(pages) = 3
    /\ pages[3] = None
    /\ PageValues(pages) # <<>>
    /\ raw = <<>>
    /\ Truthy(result)

\* The site search has requested some page for the second time.
Repeats ==
    /\ pc = "search_next"
    /\ \E i \in 1..Len(pages) : PageUrls(pages)[i] = pages[Len(pages)].next

\* The model follows a chain of links that repeats up to MaxReads pages.
Capped == pc = "search_next" /\ rpc = "done" /\ Len(pages) + 1 = MaxReads

\* The site search has ended, and these are the pages it got.
SearchOver == pc \notin {"search_first", "search_next"} /\ pages # <<>>

\* The page is a payload with a "value": the test of lines 162 and 169.
Usable(page) == Truthy(page) /\ HasValue(page)

\* C26 (as claimed): the site search ends only at a page without link or at a
\* failed page request.
C26_EndsOnlyAtChainEnd ==
    SearchOver => (pages[Len(pages)] = None \/ ~HasNext(pages[Len(pages)]))

\* C26 (amended): once the first page carries a "value", the site search
\* follows every continuation link, whatever the number of pages read and
\* whether or not the link names a page already read, and ends only at a page
\* without link or at a failed page request; a first page without "value"
\* ends it at once, its link not followed. So a chain of links that comes
\* back to a page read before keeps the search running: every answer it gets
\* links on, as far as the chain is followed, and the list grows with every
\* page. Without such a chain discover_all_sites returns.
C26_FollowsEveryLink ==
    /\ [](pc = "search_next" =>
            /\ Usable(pages[1])
            /\ HasNext(pages[Len(pages)])
            /\ req.url = Url("search", pages[Len(pages)].next, 0))
    /\ [](SearchOver =>
            \/ pages[Len(pages)] = None
            \/ ~HasNext(pages[Len(pages)])
            \/ Len(pages) = 1 /\ ~Usable(pages[1]))
    /\ [](Repeats => [](pc = "search_next"))
    /\ []((Repeats /\ rpc = "done") => HasNext(result))
    /\ <>(pc = "discovered" \/ Repeats)

C26_Witness ==
    /\ Capped
    /\ Repeats
    /\ Len(pages) > MaxPages
    /\ pages[Len(pages)].next = PageUrls(pages)[Len(pages)]
    /\ Len(acc) > MaxSites

C28_CacheIsLastDiscovery ==
    /\ [](/\ sites = discovered
          /\ \A i \in 1..Len(sites) : sites[i].id # 0
          /\ \A i, j \in 1..Len(sites) : sites[i].id = sites[j].id => i = j)
    /\ [][sites' # sites => (pc # "discovered" /\ pc' = "discovered")]_vars
    /\ [][(pc = "start" /\ who = "all") => ((pc' = "idle") <=> (sites = <<>>))]_vars
    /\ [][(pc = "idle" /\ who = "all") => sites = <<>>]_vars

C28_Witness ==
    /\ who = "all"
    /\ round = 1
    /\ pc = "ready"
    /\ pos = 1
    /\ Len(sites) = 2
    /\ sites = discovered
    /\ strategy = 0

\* C29: against an API whose answers do not change, the list analyze_all_sites
\* returns for the discovered sites is the list main's loop assembled for them:
\* the same analyses in the same order.
C29_SameListEitherWay ==
    (round = 1 /\ pc = "returned") =>
        /\ all_analyses = previous
        /\ \A i \in 1..Len(all_analyses) : all_analyses[i].kind = "analysis"

C29_Witness ==
    /\ round = 1
    /\ pc = "returned"
    /\ Len(sites) = 2
    /\ Len(previous) = 1
    /\ all_analyses = previous
    /\ visited[1].analysed = FALSE
    /\ visited[2].analysed = TRUE
    /\ previous[1].total_libraries = 1

\* The three values of a save_credentials call, as load_credentials returns
\* them.
Credentials(made) ==
    [kind |-> "dict", client_id |-> made.client_id, tenant_id |-> made.tenant_id,
     client_secret |-> made.client_secret, version |-> "1.0"]

\* C30: save_credentials returns True at every call, also with a key file
\* already there, and a load_credentials that follows with the same password
\* returns the values saved; update_credentials on credentials that load
\* returns True, and the load that follows shows the fields it was given.
C30_RoundTrip ==
    /\ last.op = "save" => last.returned
    /\ (last.op = "load" /\ earlier.op = "save" /\ last.password = earlier.password)
          => last.returned = Credentials(earlier)
    /\ (last.op = "update" /\ earlier.op = "load" /\ earlier.returned # None
          /\ last.password = earlier.password)
          => last.returned
    /\ (last.op = "load" /\ earlier.op = "update" /\ earlier.returned
          /\ last.password = earlier.password)
          => /\ last.returned # None
             /\ earlier.client_id # 0 => last.returned.client_id = earlier.client_id
             /\ earlier.tenant_id # 0 => last.returned.tenant_id = earlier.tenant_id
             /\ earlier.client_secret # 0
                   => last.returned.client_secret = earlier.client_secret

\* The requests of a complete analysis of site s with libraries libs: the
\* site, the listing, then for each library its shared links and permissions.
Expected(s, libs) ==
    <<Url("site", s, 0), Url("libs", s, 0)>> \o
    [i \in 1..(2 * Len(libs)) |->
        IF i % 2 = 1 THEN Url("shared", s, libs[(i + 1) \div 2].id)
                     ELSE Url("perms", s, libs[i \div 2].id)]

\* C23: analyze_site_permissions asks for the site, then the library listing,
\* then library by library for the shared links and then the permissions; the
\* requests made so far are always the head of that order, and an analysis is
\* returned only when all of them were made.
C23_RequestOrder ==
    /\ pc = "an_site" => asked = <<Url("site", site_id, 0)>>
    /\ pc = "an_libs" => asked = Expected(site_id, <<>>)
    /\ pc = "an_shared" =>
          asked = SubSeq(Expected(site_id, libraries), 1, 2 * idx + 1)
    /\ pc = "an_perms" =>
          asked = SubSeq(Expected(site_id, libraries), 1, 2 * idx + 2)
    /\ pc \in {"an_site", "an_libs", "an_shared", "an_perms"} =>
          req.url = asked[Len(asked)] /\ req.method = GET
    /\ (pc = "analyzed" /\ analysis # EmptyObject) =>
          asked = Expected(site_id, analysis.libraries)
    /\ (pc = "analyzed" /\ analysis = EmptyObject) =>
          asked = <<Url("site", site_id, 0)>>

C23_Witness ==
    /\ pc = "analyzed"
    /\ analysis # EmptyObject
    /\ Len(analysis.libraries) = 2
    /\ Len(asked) = 6
    /\ asked[3].kind = "shared" /\ asked[4].kind = "perms"
    /\ asked[5].kind = "shared" /\ asked[6].kind = "perms"
    /\ asked[3].b # asked[5].b

\* The client used through any of its entry points.
Init ==
    \/ InitRequest
    \/ InitDiscover
    \/ InitRepeat
    \/ InitPaging
    \/ InitAnalyze
    \/ InitBatch
    \/ InitTwice
    \/ InitCredentials

Next ==
    \/ Construct
    \/ Execute
    \/ enumerate
    \/ enumerator_returns
    \/ MakeRequest
    \/ Discover
    \/ discover_again
    \/ Analyze
    \/ Main
    \/ AnalyzeAll
    \/ analyze_all_sites_after_main
    \/ NextCredentials

Spec == Init /\ [][Next]_vars
=============================================================================
